---- MODULE Spec2Model ----
(***************************************************************************)
(* Model of the snailplate-parser scanning core: TokenBuf (tokenbuf.rs),   *)
(* Tokenizer (tokenizer.rs, tokenizer/iterator.rs, tokenizer/ident.rs) and *)
(* IncludeResolver (include_resolver.rs, include_resolver/iterator.rs).    *)
(*                                                                         *)
(* Every Rust method is an operator that takes the object as a record and  *)
(* returns the changed object together with its result, so that a whole    *)
(* call of next() or src_push() is one action.  Rust indexes from 0, TLA+  *)
(* sequences from 1: the byte at Rust position pos is src[pos + 1].        *)
(* Memory reservation (try_reserve) succeeds while memory is available.    *)
(***************************************************************************)
EXTENDS Integers, Sequences, FiniteSets, TLC

VARIABLES tokenizer, resolver, fs, panicked, result, delivered, before,
          tbuf, appended, popped, tb_result, memory, features, slice_span, slice_ret

\* a TokenBuf of its own with the history of the calls made on it
tbuf_vars == <<tbuf, appended, popped, tb_result>>

\* the build (cargo features enabled) and the allocator's condition
build_vars == <<memory, features>>

\* the Span of a caller's latest Tokenizer::span_slice and what it returned
span_vars == <<slice_span, slice_ret>>

vars == <<tokenizer, resolver, fs, panicked, result, delivered, before, tbuf, appended, popped, tb_result, memory, features, slice_span, slice_ret>>

(***************************************************************************)
(* Bytes the scanner tells apart.                                          *)
(***************************************************************************)
LF == 10
TAB == 9
SP == 32
LPAREN == 40
RPAREN == 41
AT == 64
UpperA == 65
UpperZ == 90
LowerA == 97
LowerZ == 122

IsIdentChar(b) == (b >= UpperA /\ b <= UpperZ) \/ (b >= LowerA /\ b <= LowerZ)

\* "include" as bytes
IncludeIdent == <<105, 110, 99, 108, 117, 100, 101>>

\* src[pos] of the Rust code (also buf.get(idx) of a Vec of tokens)
ByteAt(src, pos) == src[pos + 1]

\* &src[start..end] of the Rust code
Slice(src, start, end) == SubSeq(src, start + 1, end)

(***************************************************************************)
(* Tokens.  One record shape for every Token: kind is the Token variant,   *)
(* body the TokenBody variant (or the ParseError variant of a diagnostic), *)
(* the six Span fields, and the Source component and code of a diagnostic  *)
(* (Source.pos_zero is kept in pos_zero; Source.line is not modelled).     *)
(***************************************************************************)
Span(index, pos_region, pos_line, pos_zero, line, length) ==
    [index |-> index, pos_region |-> pos_region, pos_line |-> pos_line,
     pos_zero |-> pos_zero, line |-> line, length |-> length]

Token(kind, body, span) ==
    [kind |-> kind, body |-> body, index |-> span.index,
     pos_region |-> span.pos_region, pos_line |-> span.pos_line,
     pos_zero |-> span.pos_zero, line |-> span.line, length |-> span.length,
     comp |-> "", code |-> 0]

Real(body, span) == Token("Real", body, span)

Phantom(body, span) == Token("Phantom", body, span)

Diag(kind, err, pos_zero, comp, code) ==
    [kind |-> kind, body |-> err, index |-> 0, pos_region |-> 0, pos_line |-> 0,
     pos_zero |-> pos_zero, line |-> 0, length |-> 0, comp |-> comp, code |-> code]

StateChange == Diag("StateChange", "", 0, "", 0)

\* Option::None as a result of next()
None == Diag("None", "", 0, "", 0)

\* Token::span_clone: only Real and Phantom tokens carry a Span
HasSpan(tok) == tok.kind \in {"Real", "Phantom"}

SpanOf(tok) ==
    Span(tok.index, tok.pos_region, tok.pos_line, tok.pos_zero, tok.line, tok.length)

(***************************************************************************)
(* TokenBuf                                                                *)
(***************************************************************************)
\* a build in which the feature is never compiled in
tokenbuf_push_guard_off == FALSE

\* cargo feature tokenbuf_push_guard: #[cfg(feature = "tokenbuf_push_guard")]
tokenbuf_push_guard == "tokenbuf_push_guard" \in features

\* the width of usize in bits, kept small: only the order of the values and
\* of usize::MAX matters to the code
UsizeBits == 6

\* usize::MAX
UsizeMax == 2 ^ UsizeBits - 1

\* the build checks integer overflow (rustc -C overflow-checks, the default
\* of the dev profile)
overflow_checks == "overflow_checks" \in features

\* a + b on usize: the wrapped value and whether the sum overflowed
usize_add(a, b) == [value |-> (a + b) % (UsizeMax + 1), overflow |-> a + b > UsizeMax]

\* Vec::try_reserve of TokenBuf::append succeeds unless memory is exhausted
try_reserve == memory = "Available"

\* TokenBuf::new; cap is the capacity of buf (Vec::with_capacity(16)).
\* undrained is a history field: an append has found buf.len() different from
\* num_tokens, the condition that the tokenbuf_push_guard feature tests.
TokenBufNew == [num_tokens |-> 0, buf |-> <<>>, cap |-> 16, undrained |-> FALSE]

\* the element of a one-element set.  Only({ e : x \in { v } }) is e with x
\* bound to v: a local variable that is assigned once and read many times.
Only(S) == CHOOSE x \in S : TRUE

\* an append that starts the buffer over when it is partially drained
TokenBufAppend_restart(tb, token) ==
    IF Len(tb.buf) # tb.num_tokens
    THEN [ok |-> TRUE, tb |-> [tb EXCEPT !.num_tokens = 1, !.buf = <<token>>], err |-> None]
    ELSE [ok |-> TRUE,
          tb |-> [tb EXCEPT !.num_tokens = @ + 1, !.buf = Append(@, token)],
          err |-> None]

\* TokenBuf::append: Ok(()) is ok = TRUE, Err(token) is ok = FALSE with err
TokenBufAppend(tb, token) ==
    IF tb.cap < Len(tb.buf) + 1 /\ ~try_reserve
    THEN [ok |-> FALSE, tb |-> tb,
          err |-> Diag("Fatal", "NoMemory", 0, "TokenBuf", 3)]
    ELSE IF tokenbuf_push_guard /\ Len(tb.buf) # tb.num_tokens
    THEN [ok |-> FALSE,
          tb |-> [tb EXCEPT !.cap = IF @ < Len(tb.buf) + 1 THEN Len(tb.buf) + 16 ELSE @,
                            !.undrained = TRUE],
          err |-> Diag("Fatal", "InternalError", 0, "TokenBuf", 3)]
    ELSE [ok |-> TRUE,
          tb |-> [num_tokens |-> tb.num_tokens + 1, buf |-> Append(tb.buf, token),
                  cap |-> IF tb.cap < Len(tb.buf) + 1 THEN Len(tb.buf) + 16 ELSE tb.cap,
                  undrained |-> tb.undrained \/ Len(tb.buf) # tb.num_tokens],
          err |-> None]

\* a popleft that leaves the returned tokens in buf when the last one is taken
TokenBufPopleft_no_clear(tb) ==
    IF tb.num_tokens < 1
    THEN [ok |-> TRUE, tb |-> tb, ret |-> None]
    ELSE [ok |-> TRUE, tb |-> [tb EXCEPT !.num_tokens = @ - 1],
          ret |-> ByteAt(tb.buf, Len(tb.buf) - tb.num_tokens)]

\* a popleft that forgets the returned tokens only when it is called on a
\* buffer without pending tokens
TokenBufPopleft_late_clear(tb) ==
    IF tb.num_tokens < 1
    THEN [ok |-> TRUE, tb |-> [tb EXCEPT !.buf = <<>>], ret |-> None]
    ELSE [ok |-> TRUE, tb |-> [tb EXCEPT !.num_tokens = @ - 1],
          ret |-> ByteAt(tb.buf, Len(tb.buf) - tb.num_tokens)]

\* TokenBuf::popleft: Ok(None) / Ok(Some(token)) is ok = TRUE with ret,
\* Err(token) is ok = FALSE with ret the error token
TokenBufPopleft(tb) ==
    IF tb.num_tokens < 1
    THEN [ok |-> TRUE, tb |-> tb, ret |-> None]
    ELSE IF Len(tb.buf) < tb.num_tokens
    THEN [ok |-> FALSE,
          tb |-> [num_tokens |-> 0, buf |-> <<>>, cap |-> tb.cap,
                  undrained |-> tb.undrained],
          ret |-> Diag("Fatal", "InternalError", 0, "TokenBuf", 1)]
    ELSE LET idx_item == Len(tb.buf) - tb.num_tokens
             num_tokens == tb.num_tokens - 1
         IN  [ok |-> TRUE,
              tb |-> [num_tokens |-> num_tokens, cap |-> tb.cap,
                      buf |-> IF num_tokens < 1 THEN <<>> ELSE tb.buf,
                      undrained |-> tb.undrained],
              ret |-> ByteAt(tb.buf, idx_item)]

(***************************************************************************)
(* Tokenizer                                                               *)
(***************************************************************************)
TokenizerNew ==
    [state |-> "ExpectInput", index |-> 0, pos_zero |-> 0, pos_region |-> 0,
     pos_line |-> 0, pos_max |-> 0, line |-> 0, tokenbuf |-> TokenBufNew,
     region |-> <<>>, cnt_openparen |-> 0, cnt_closeparen |-> 0,
     region_meta |-> <<>>, state_snap |-> <<>>, parse_error_prev |-> "None",
     pos_zero_prev_instr |-> 0,
     cap_region |-> 8, cap_region_meta |-> 8, cap_state_snap |-> 8]

\* the current region, self.region[self.index]
Src(t) == t.region[t.index + 1]

fail_token(t) == [t EXCEPT !.state = "Failed"]

\* Tokenizer::tokenbuf_push: a failed append also fails the Tokenizer
tokenbuf_push(t, tok) ==
    Only({ IF r.ok
           THEN [ok |-> TRUE, t |-> [t EXCEPT !.tokenbuf = r.tb], err |-> None]
           ELSE [ok |-> FALSE, t |-> fail_token(t), err |-> r.err]
           : r \in { TokenBufAppend(t.tokenbuf, tok) } })

\* Tokenizer::tokenbuf_consume
tokenbuf_consume(t) ==
    Only({ IF r.ok
           THEN [ok |-> TRUE, t |-> [t EXCEPT !.tokenbuf = r.tb], ret |-> r.ret]
           ELSE [ok |-> FALSE, t |-> fail_token([t EXCEPT !.tokenbuf = r.tb]),
                 ret |-> r.ret]
           : r \in { TokenBufPopleft(t.tokenbuf) } })

\* src_push as it would be if it reset the global offset with the other
\* position fields
src_push_resets_pos_zero(t, buf) ==
    [t EXCEPT
       !.state_snap = Append(@, [pos_region |-> t.pos_region, pos_line |-> t.pos_line,
                                 line |-> t.line, index |-> t.index]),
       !.region_meta = Append(@, [pos_region |-> t.pos_region, index |-> t.index,
                                  pos_zero |-> t.pos_zero, pos_line |-> t.pos_line,
                                  line |-> t.line]),
       !.pos_max = Len(buf),
       !.region = Append(@, buf),
       !.index = Len(t.region),
       !.pos_region = 0,
       !.pos_line = 0,
       !.pos_zero = 0,
       !.line = 0,
       !.state = IF t.state = "ExpectInput" THEN "ExpectDefered" ELSE t.state]

\* src_push as it would be if a new region restarted the Tokenizer whatever
\* its state
src_push_restarts(t, buf) ==
    [t EXCEPT
       !.state_snap = Append(@, [pos_region |-> t.pos_region, pos_line |-> t.pos_line,
                                 line |-> t.line, index |-> t.index]),
       !.region_meta = Append(@, [pos_region |-> t.pos_region, index |-> t.index,
                                  pos_zero |-> t.pos_zero, pos_line |-> t.pos_line,
                                  line |-> t.line]),
       !.pos_max = Len(buf),
       !.region = Append(@, buf),
       !.index = Len(t.region),
       !.pos_region = 0,
       !.pos_line = 0,
       !.line = 0,
       !.state = "ExpectDefered"]

\* src_push that starts the global offset anew with the region
src_push_resets_offset(t, buf) ==
    [t EXCEPT
       !.state_snap = Append(@, [pos_region |-> t.pos_region, pos_line |-> t.pos_line,
                                 line |-> t.line, index |-> t.index]),
       !.region_meta = Append(@, [pos_region |-> t.pos_region, index |-> t.index,
                                  pos_zero |-> t.pos_zero, pos_line |-> t.pos_line,
                                  line |-> t.line]),
       !.pos_max = Len(buf),
       !.region = Append(@, buf),
       !.index = Len(t.region),
       !.pos_region = 0,
       !.pos_line = 0,
       !.pos_zero = 0,
       !.line = 0,
       !.state = IF t.state = "ExpectInput" THEN "ExpectDefered" ELSE t.state]

\* src_push that leaves pos_line where it was in the enclosing region
src_push_keeps_line(t, buf) ==
    [t EXCEPT
       !.state_snap = Append(@, [pos_region |-> t.pos_region, pos_line |-> t.pos_line,
                                 line |-> t.line, index |-> t.index]),
       !.region_meta = Append(@, [pos_region |-> t.pos_region, index |-> t.index,
                                  pos_zero |-> t.pos_zero, pos_line |-> t.pos_line,
                                  line |-> t.line]),
       !.pos_max = Len(buf),
       !.region = Append(@, buf),
       !.index = Len(t.region),
       !.pos_region = 0,
       !.line = 0,
       !.state = IF t.state = "ExpectInput" THEN "ExpectDefered" ELSE t.state]

\* Tokenizer::src_push, the pushes and resets made once the three Vecs have
\* room for one more element
src_push_reserved(t, buf) ==
    [t EXCEPT
       !.state_snap = Append(@, [pos_region |-> t.pos_region, pos_line |-> t.pos_line,
                                 line |-> t.line, index |-> t.index]),
       !.region_meta = Append(@, [pos_region |-> t.pos_region, index |-> t.index,
                                  pos_zero |-> t.pos_zero, pos_line |-> t.pos_line,
                                  line |-> t.line]),
       !.pos_max = Len(buf),
       !.region = Append(@, buf),
       !.index = Len(t.region),
       !.pos_region = 0,
       !.pos_line = 0,
       !.line = 0,
       !.state = IF t.state = "ExpectInput" THEN "ExpectDefered" ELSE t.state]

\* the capacity of a Vec of len elements and capacity cap after the
\* try_reserve(additional) that src_push makes when cap < len + 1
Reserved(cap, len, additional) == IF cap < len + 1 THEN len + additional ELSE cap

\* Tokenizer::src_push: the Tokenizer after the call.  Each of the three
\* Vecs (created with_capacity(8)) is given room before its push; when a
\* reservation fails the call fails the Tokenizer and returns
\* Err(Fatal(NoMemory)), what was pushed before stays pushed.
src_push(t, buf) ==
    IF t.cap_state_snap < Len(t.state_snap) + 1 /\ ~try_reserve
    THEN fail_token(t)
    ELSE IF t.cap_region_meta < Len(t.region_meta) + 1 /\ ~try_reserve
    THEN fail_token([t EXCEPT
             !.cap_state_snap = Reserved(@, Len(t.state_snap), 8),
             !.state_snap = Append(@, [pos_region |-> t.pos_region, pos_line |-> t.pos_line,
                                       line |-> t.line, index |-> t.index])])
    ELSE IF t.cap_region < Len(t.region) + 1 /\ ~try_reserve
    THEN fail_token([t EXCEPT
             !.cap_state_snap = Reserved(@, Len(t.state_snap), 8),
             !.state_snap = Append(@, [pos_region |-> t.pos_region, pos_line |-> t.pos_line,
                                       line |-> t.line, index |-> t.index]),
             !.cap_region_meta = Reserved(@, Len(t.region_meta), 16),
             !.region_meta = Append(@, [pos_region |-> t.pos_region, index |-> t.index,
                                        pos_zero |-> t.pos_zero, pos_line |-> t.pos_line,
                                        line |-> t.line])])
    ELSE src_push_reserved([t EXCEPT
             !.cap_state_snap = Reserved(@, Len(t.state_snap), 8),
             !.cap_region_meta = Reserved(@, Len(t.region_meta), 16),
             !.cap_region = Reserved(@, Len(t.region), 16)], buf)

\* what Tokenizer::src_push returns: TRUE for Ok(None), FALSE for
\* Err(Fatal(NoMemory))
src_push_ok(t) ==
    \/ try_reserve
    \/ /\ t.cap_state_snap >= Len(t.state_snap) + 1
       /\ t.cap_region_meta >= Len(t.region_meta) + 1
       /\ t.cap_region >= Len(t.region) + 1

\* the failure path as it would be without the latch: the offending token is
\* queued again at every failed delivery
return_tokenized_fail_requeue(t, tok) ==
    [t |-> fail_token([tokenbuf_push(t, tok).t
                          EXCEPT !.parse_error_prev = "InternalError"]),
     ret |-> Diag("Fatal", "InternalError", t.pos_zero, "Tokenizer", 0)]

\* The failure path return_tokenized repeats at each of its guards: the
\* offending token is queued again unless InternalError is already latched,
\* the latch is set, the Tokenizer fails and Fatal(InternalError) is returned.
return_tokenized_fail(t, tok) ==
    [t |-> fail_token(IF t.parse_error_prev = "InternalError"
                      THEN t
                      ELSE [tokenbuf_push(t, tok).t
                               EXCEPT !.parse_error_prev = "InternalError"]),
     ret |-> Diag("Fatal", "InternalError", t.pos_zero, "Tokenizer", 0)]

\* the move past the token as it would be if a Newline left the column alone
return_tokenized_advance_keeps_column(t, tok) ==
    LET t1 == [t EXCEPT !.pos_region = tok.pos_region + tok.length,
                        !.pos_zero = tok.pos_zero + tok.length,
                        !.pos_line = tok.pos_line + tok.length,
                        !.line = tok.line]
    IN  CASE tok.body = "Newline" ->
               [t1 EXCEPT !.line = tok.line + 1]
          [] tok.body = "Include" ->
               [t1 EXCEPT !.state = "ExpectInstructionClose",
                          !.cnt_openparen = 0,
                          !.cnt_closeparen = 0,
                          !.pos_zero_prev_instr = tok.pos_zero]
          [] tok.body = "OpenParen" ->
               [t1 EXCEPT !.cnt_openparen = @ + 1]
          [] OTHER -> t1

\* the move past the token as it would be if a Newline were a token like any
\* other
return_tokenized_advance_same_line(t, tok) ==
    LET t1 == [t EXCEPT !.pos_region = tok.pos_region + tok.length,
                        !.pos_zero = tok.pos_zero + tok.length,
                        !.pos_line = tok.pos_line + tok.length,
                        !.line = tok.line]
    IN  CASE tok.body = "Include" ->
               [t1 EXCEPT !.state = "ExpectInstructionClose",
                          !.cnt_openparen = 0,
                          !.cnt_closeparen = 0,
                          !.pos_zero_prev_instr = tok.pos_zero]
          [] tok.body = "OpenParen" ->
               [t1 EXCEPT !.cnt_openparen = @ + 1]
          [] OTHER -> t1

\* return_tokenized, the part that moves the position past the token
return_tokenized_advance(t, tok) ==
    LET t1 == [t EXCEPT !.pos_region = tok.pos_region + tok.length,
                        !.pos_zero = tok.pos_zero + tok.length,
                        !.pos_line = tok.pos_line + tok.length,
                        !.line = tok.line]
    IN  CASE tok.body = "Newline" ->
               [t1 EXCEPT !.line = tok.line + 1, !.pos_line = 0]
          [] tok.body = "Include" ->
               [t1 EXCEPT !.state = "ExpectInstructionClose",
                          !.cnt_openparen = 0,
                          !.cnt_closeparen = 0,
                          !.pos_zero_prev_instr = tok.pos_zero]
          [] tok.body = "OpenParen" ->
               [t1 EXCEPT !.cnt_openparen = @ + 1]
          [] OTHER -> t1

\* return_tokenized, the part that runs when the token ends its region
return_tokenized_pop(t, tok) ==
    IF t.index = 0
    THEN [t |-> t, ret |-> tok]
    ELSE IF t.state_snap = <<>>
    THEN return_tokenized_fail(t, tok)
    ELSE Only({ Only({ IF t1.index # snap.index
                       THEN return_tokenized_fail(t1, tok)
                       ELSE [t |-> t1, ret |-> tok]
                       : t1 \in { [t EXCEPT
                                     !.state_snap = SubSeq(@, 1, Len(@) - 1),
                                     !.index = t.index - 1,
                                     !.pos_region = snap.pos_region,
                                     !.pos_line = snap.pos_line,
                                     !.line = snap.line,
                                     !.pos_max = Len(t.region[t.index])] } })
                : snap \in { t.state_snap[Len(t.state_snap)] } })

\* return_tokenized, what follows the move past the token: t1 is the
\* Tokenizer at the new position
return_tokenized_advanced(t1, tok) ==
    IF t1.pos_region > t1.pos_max
    THEN return_tokenized_fail([t1 EXCEPT !.pos_region = t1.pos_max], tok)
    ELSE IF t1.pos_max = t1.pos_region
    THEN return_tokenized_pop(t1, tok)
    ELSE [t |-> t1, ret |-> tok]

\* return_tokenized as it would be without the guards that compare the
\* token's span with the Tokenizer's position
return_tokenized_unguarded(t, tok) ==
    IF ~HasSpan(tok)
    THEN [t |-> t, ret |-> tok]
    ELSE return_tokenized_advanced(return_tokenized_advance(t, tok), tok)

\* Tokenizer::return_tokenized
return_tokenized(t, tok) ==
    IF ~HasSpan(tok)
    THEN [t |-> t, ret |-> tok]
    ELSE IF \/ t.index # tok.index
            \/ t.pos_region # tok.pos_region
            \/ t.pos_line # tok.pos_line
            \/ t.pos_zero # tok.pos_zero
            \/ t.line # tok.line
    THEN return_tokenized_fail(t, tok)
    ELSE return_tokenized_advanced(return_tokenized_advance(t, tok), tok)

\* the scanning loop of defered_tokenize: the first position at or after pos
\* that holds 0x0A or '@', or the end of the region
RECURSIVE defered_scan(_, _)
defered_scan(src, pos) ==
    IF pos < Len(src) /\ ByteAt(src, pos) \notin {LF, AT}
    THEN defered_scan(src, pos + 1)
    ELSE pos

\* ident::ident_match_7
ident_match_7(src, start, end) ==
    LET ident == Slice(src, start, end + 1)
    IN  IF \A k \in 1..7 : ident[k] = IncludeIdent[k]
        THEN [ident |-> "Include", start |-> start, end |-> end]
        ELSE [ident |-> "None", start |-> 0, end |-> 0]

\* ident::ident_match
ident_match(src, start, end) ==
    IF end < start
    THEN [ident |-> "None", start |-> 0, end |-> 0]
    ELSE IF end - start + 1 = 7
    THEN ident_match_7(src, start, end)
    ELSE [ident |-> "None", start |-> 0, end |-> 0]

\* the first position in pos..pos_end-1 that holds 0x0A, or pos_end
RECURSIVE newline_scan(_, _, _)
newline_scan(src, pos, pos_end) ==
    IF pos < pos_end /\ ByteAt(src, pos) # LF
    THEN newline_scan(src, pos + 1, pos_end)
    ELSE pos

\* tokenizer_line_tokenize without the return to column 0 after the newline
tokenizer_line_tokenize_same_line(st, index, src, pos_end, pos_zero_base) ==
    Only({
      LET len_wsp == pos - st.pos_prev
      IN  IF pos >= pos_end
          THEN [st |-> st, err |-> Diag("Fatal", "InternalError", pos, "Tokenizer", 0)]
          ELSE Only({
            IF ~a1.ok
            THEN [st |-> st, err |-> a1.err]
            ELSE Only({
              IF ~a2.ok
              THEN [st |-> [st EXCEPT !.tb = a1.tb], err |-> a2.err]
              ELSE [st |-> [tb |-> a2.tb, pos |-> pos + 1, pos_prev |-> pos + 1,
                            parsed_wsp |-> st.parsed_wsp + len_wsp + 1,
                            pos_line_base |-> st.pos_line_base + len_wsp + 1, line |-> st.line + 1],
                    err |-> None]
              : a2 \in { TokenBufAppend(a1.tb,
                            Real("Newline",
                                 Span(index, st.pos_prev + len_wsp,
                                      st.pos_line_base + len_wsp,
                                      pos_zero_base + st.parsed_wsp + len_wsp,
                                      st.line, 1))) } })
            : a1 \in { IF len_wsp > 0
                       THEN TokenBufAppend(st.tb,
                                Real(IF st.pos_line_base = 0 THEN "WhiteSpaceWhole"
                                     ELSE "WhiteSpaceTr",
                                     Span(index, st.pos_prev, st.pos_line_base,
                                          pos_zero_base + st.parsed_wsp, st.line,
                                          len_wsp)))
                       ELSE [ok |-> TRUE, tb |-> st.tb, err |-> None] } })
      : pos \in { newline_scan(src, st.pos, pos_end) } })

\* tokenizer_line_tokenize.  st holds the tokenbuf and the caller's mutable
\* pos, pos_prev, parsed_wsp, pos_line_base and line; err is the returned
\* Option<Token>.
tokenizer_line_tokenize(st, index, src, pos_end, pos_zero_base) ==
    Only({
      LET len_wsp == pos - st.pos_prev
      IN  IF pos >= pos_end
          THEN [st |-> st, err |-> Diag("Fatal", "InternalError", pos, "Tokenizer", 0)]
          ELSE Only({
            IF ~a1.ok
            THEN [st |-> st, err |-> a1.err]
            ELSE Only({
              IF ~a2.ok
              THEN [st |-> [st EXCEPT !.tb = a1.tb], err |-> a2.err]
              ELSE [st |-> [tb |-> a2.tb, pos |-> pos + 1, pos_prev |-> pos + 1,
                            parsed_wsp |-> st.parsed_wsp + len_wsp + 1,
                            pos_line_base |-> 0, line |-> st.line + 1],
                    err |-> None]
              : a2 \in { TokenBufAppend(a1.tb,
                            Real("Newline",
                                 Span(index, st.pos_prev + len_wsp,
                                      st.pos_line_base + len_wsp,
                                      pos_zero_base + st.parsed_wsp + len_wsp,
                                      st.line, 1))) } })
            : a1 \in { IF len_wsp > 0
                       THEN TokenBufAppend(st.tb,
                                Real(IF st.pos_line_base = 0 THEN "WhiteSpaceWhole"
                                     ELSE "WhiteSpaceTr",
                                     Span(index, st.pos_prev, st.pos_line_base,
                                          pos_zero_base + st.parsed_wsp, st.line,
                                          len_wsp)))
                       ELSE [ok |-> TRUE, tb |-> st.tb, err |-> None] } })
      : pos \in { newline_scan(src, st.pos, pos_end) } })

\* the "while num_newlines > 0" loop of tokenizer_whitespace_tokenize
RECURSIVE whitespace_lines(_, _, _, _, _, _)
whitespace_lines(st, num_newlines, index, src, pos_end, pos_zero_base) ==
    IF num_newlines > 0
    THEN Only({ IF r.err # None
                THEN r
                ELSE whitespace_lines(r.st, num_newlines - 1, index, src, pos_end,
                                      pos_zero_base)
                : r \in { tokenizer_line_tokenize(st, index, src, pos_end,
                                                  pos_zero_base) } })
    ELSE [st |-> st, err |-> None]

\* tokenizer_whitespace_tokenize: the changed tokenbuf and the Option<Token>
tokenizer_whitespace_tokenize(tokenbuf, index, src, pos_zero, pos_region, len_region, line_start, line_end, pos_line, len_token) ==
    LET pos_end == pos_region + len_region
        pos_zero_base == pos_zero + len_token
    IN  Only({
          IF r.err # None
          THEN [tb |-> r.st.tb, err |-> r.err]
          ELSE IF pos_end # r.st.pos
          THEN Only({ IF a.ok
                      THEN [tb |-> a.tb, err |-> None]
                      ELSE [tb |-> r.st.tb, err |-> a.err]
                      : a \in { TokenBufAppend(r.st.tb,
                                   Real(IF Len(src) > pos_end THEN "WhiteSpaceLd"
                                        ELSE "WhiteSpace",
                                        Span(index, r.st.pos, r.st.pos_line_base,
                                             pos_zero_base + r.st.parsed_wsp,
                                             r.st.line, pos_end - r.st.pos))) } })
          ELSE [tb |-> r.st.tb, err |-> None]
          : r \in { whitespace_lines([tb |-> tokenbuf, pos |-> pos_region,
                                      pos_prev |-> pos_region, parsed_wsp |-> 0,
                                      pos_line_base |-> pos_line + len_token,
                                      line |-> line_start],
                                     line_end - line_start, index, src, pos_end,
                                     pos_zero_base) } })

\* Tokenizer::whitespace_into_tokenbuf: the changed Tokenizer and the
\* Option<Token> (None on success)
whitespace_into_tokenbuf(t, index, pos_region, len_region, line_start, line_end) ==
    LET len_token == pos_region - t.pos_region
    IN  IF len_region < 1
        THEN [t |-> t, err |-> None]
        ELSE IF line_start = line_end
        THEN Only({
               IF ~p1.ok
               THEN [t |-> p1.t, err |-> p1.err]
               ELSE Only({ IF ~p2.ok
                           THEN [t |-> p2.t, err |-> p2.err]
                           ELSE [t |-> p2.t, err |-> None]
                           : p2 \in { tokenbuf_push(p1.t,
                                         Diag("Warning", "UnwantedWhiteSpace",
                                              t.pos_zero + len_token, "Tokenizer",
                                              2)) } })
               : p1 \in { tokenbuf_push(t, Real("WhiteSpace",
                             Span(index, pos_region, t.pos_line + len_token,
                                  t.pos_zero + len_token, line_start,
                                  len_region))) } })
        ELSE Only({ [t |-> [t EXCEPT !.tokenbuf = w.tb], err |-> w.err]
                    : w \in { tokenizer_whitespace_tokenize(t.tokenbuf, index,
                                  t.region[index + 1], t.pos_zero, pos_region,
                                  len_region, line_start, line_end, t.pos_line,
                                  len_token) } })

\* instruction_tokenize_unfinished stopping the Defered before the region's
\* last byte
instruction_tokenize_unfinished_short(t, pos_start, pos_max) ==
    return_tokenized(t, Real("Defered",
        Span(t.index, t.pos_region, t.pos_line, t.pos_zero, t.line, pos_max - pos_start - 1)))

\* Tokenizer::instruction_tokenize_unfinished
instruction_tokenize_unfinished(t, pos_start, pos_max) ==
    return_tokenized(t, Real("Defered",
        Span(t.index, t.pos_region, t.pos_line, t.pos_zero, t.line, pos_max - pos_start)))

\* Tokenizer::instruction_tokenize_bad_paren
instruction_tokenize_bad_paren(t, pos_start) ==
    LET len_left == pos_start - t.pos_region
    IN  Only({ IF ~p.ok
               THEN [t |-> p.t, ret |-> p.err]
               ELSE return_tokenized(p.t, Real("UnescapedAt",
                        Span(t.index, t.pos_region, t.pos_line, t.pos_zero, t.line, 1)))
               : p \in { tokenbuf_push(t, Diag("Error", "InstructionError",
                                               t.pos_zero + len_left, "Tokenizer",
                                               0)) } })

\* Tokenizer::instruction_tokenize_whitespace_before_instruction
instruction_tokenize_whitespace_before_instruction(t) ==
    return_tokenized(t, Real("UnescapedAt",
        Span(t.index, t.pos_region, t.pos_line, t.pos_zero, t.line, 1)))

\* Tokenizer::instruction_tokenize_correct_paren_defered
instruction_tokenize_correct_paren_defered(t, pos_at, pos_start, pos_open_paren, ident_pos_end, line_at, line_start, line_open_paren, pos_last_linestart) ==
    LET pos_zero == t.pos_zero + (pos_start - t.pos_region)
        len_defered == pos_at - pos_start
        len_ident == ident_pos_end - pos_at + 1
        len_whitespace == pos_open_paren - ident_pos_end - 1
        pos_next_span1 == pos_start + len_defered + len_ident
        len_to_span1 == len_defered + len_ident
        pos_next_span2 == IF len_whitespace > 0 THEN pos_next_span1 + len_whitespace
                          ELSE pos_next_span1
        len_to_span2 == IF len_whitespace > 0 THEN len_to_span1 + len_whitespace
                        ELSE len_to_span1
    IN  IF line_at # line_start \/ pos_start # t.pos_region
        THEN [t |-> fail_token(t),
              ret |-> Diag("Fatal", "InstructionError", pos_zero, "Tokenizer", 0)]
        ELSE Only({
          IF ~p1.ok
          THEN [t |-> p1.t, ret |-> p1.err]
          ELSE Only({
            IF ~p2.ok
            THEN [t |-> p2.t, ret |-> p2.err]
            ELSE Only({
              IF ~p3.ok
              THEN [t |-> p3.t, ret |-> p3.err]
              ELSE return_tokenized([p3.t EXCEPT !.state = "ExpectDefered"],
                       Real("Defered", Span(t.index, pos_start, t.pos_line,
                                            t.pos_zero, line_start, len_defered)))
              : p3 \in { tokenbuf_push(p2.t, Real("OpenParen",
                            Span(t.index, pos_next_span2,
                                 pos_open_paren - pos_last_linestart,
                                 t.pos_zero + len_to_span2, line_open_paren, 1))) } })
            : p2 \in { IF len_whitespace > 0
                       THEN tokenbuf_push(p1.t, Real("WhiteSpace",
                                Span(t.index, pos_next_span1, t.pos_line + len_to_span1,
                                     t.pos_zero + len_to_span1, line_at,
                                     len_whitespace)))
                       ELSE [ok |-> TRUE, t |-> p1.t, err |-> None] } })
          : p1 \in { tokenbuf_push(t, Real("Include",
                        Span(t.index, pos_at, t.pos_line + len_defered,
                             t.pos_zero + len_defered, line_at, len_ident))) } })

\* Tokenizer::instruction_tokenize_correct_paren_now
instruction_tokenize_correct_paren_now(t, pos_at, pos_start, pos_open_paren, ident_pos_end, line_at, line_start, line_open_paren, pos_last_linestart) ==
    LET pos_zero == t.pos_zero + (pos_start - t.pos_region)
        len_instruction == ident_pos_end - pos_at + 1
        len_whitespace == pos_open_paren - ident_pos_end - 1
    IN  IF line_at # line_start
        THEN [t |-> fail_token(t),
              ret |-> Diag("Fatal", "InstructionError", pos_zero, "Tokenizer", 0)]
        ELSE Only({
          IF w.err # None
          THEN [t |-> w.t, ret |-> w.err]
          ELSE Only({
            IF ~p.ok
            THEN [t |-> p.t, ret |-> p.err]
            ELSE return_tokenized(p.t, Real("Include",
                     Span(t.index, pos_start, t.pos_line, t.pos_zero, line_at,
                          len_instruction)))
            : p \in { tokenbuf_push(w.t, Real("OpenParen",
                         Span(t.index, pos_open_paren,
                              pos_open_paren - pos_last_linestart,
                              t.pos_zero + len_instruction + len_whitespace,
                              line_open_paren, 1))) } })
          : w \in { whitespace_into_tokenbuf(t, t.index, ident_pos_end + 1,
                        len_whitespace, line_at, line_open_paren) } })

\* Tokenizer::instruction_tokenize_correct_paren
instruction_tokenize_correct_paren(t, pos_at, pos_start, pos_first_char, pos_last_char, pos_open_paren, line_at, line_start, line_open_paren, pos_last_linestart) ==
    LET pos_zero == t.pos_zero + (pos_start - t.pos_region)
    IN  IF pos_last_char < pos_first_char \/ pos_first_char <= pos_at
        THEN [t |-> fail_token(t),
              ret |-> Diag("Fatal", "InstructionError", pos_zero, "Tokenizer", 0)]
        ELSE IF pos_at + 1 = pos_first_char
        THEN Only({
          IF id.ident = "Include"
          THEN IF pos_at > pos_start
               THEN instruction_tokenize_correct_paren_defered(t, pos_at, pos_start,
                        pos_open_paren, id.end, line_at, line_start, line_open_paren,
                        pos_last_linestart)
               ELSE instruction_tokenize_correct_paren_now(t, pos_at, pos_start,
                        pos_open_paren, id.end, line_at, line_start, line_open_paren,
                        pos_last_linestart)
          ELSE [t |-> t, ret |-> None]
          : id \in { ident_match(Src(t), pos_first_char, pos_last_char) } })
        ELSE instruction_tokenize_whitespace_before_instruction(t)

\* The scanning loop of instruction_tokenize, from the byte after '@' up to
\* the first '(' or the end of the region.  acc holds the loop's variables
\* that are read afterwards (the positions of whitespace and of bad
\* characters are recorded by the code and never read).
RECURSIVE instruction_scan(_, _, _, _, _)
instruction_scan(src, pos, pos_max, inf, acc) ==
    IF pos >= pos_max
    THEN [found |-> FALSE, pos |-> pos, acc |-> acc]
    ELSE LET b == ByteAt(src, pos)
         IN  CASE b \in {LF, SP, TAB} ->
                    instruction_scan(src, pos + 1, pos_max, inf,
                        IF b = LF
                        THEN [acc EXCEPT !.line = @ + 1, !.pos_last_linestart = pos + 1]
                        ELSE acc)
               [] b = LPAREN -> [found |-> TRUE, pos |-> pos, acc |-> acc]
               [] b = RPAREN ->
                    instruction_scan(src, pos + 1, pos_max, inf,
                        [acc EXCEPT !.pos_close_paren = pos])
               [] IsIdentChar(b) ->
                    instruction_scan(src, pos + 1, pos_max, inf,
                        [acc EXCEPT !.pos_first_char = IF @ = inf THEN pos ELSE @,
                                    !.pos_last_char = pos])
               [] OTHER -> instruction_scan(src, pos + 1, pos_max, inf, acc)

\* Tokenizer::instruction_tokenize
instruction_tokenize(t, pos_at, pos_start, pos_max, line_at, line_start) ==
    LET inf == pos_max + 1
    IN  Only({
          IF s.found
          THEN IF s.pos < s.acc.pos_close_paren
               THEN instruction_tokenize_correct_paren(t, pos_at, pos_start,
                        s.acc.pos_first_char, s.acc.pos_last_char, s.pos, line_at,
                        line_start, s.acc.line, s.acc.pos_last_linestart)
               ELSE instruction_tokenize_bad_paren(t, pos_start)
          ELSE instruction_tokenize_unfinished(t, pos_start, pos_max)
          : s \in { instruction_scan(Src(t), pos_at + 1, pos_max, inf,
                        [line |-> line_at, pos_first_char |-> inf,
                         pos_last_char |-> inf, pos_close_paren |-> inf,
                         pos_last_linestart |-> pos_start]) } })

\* Tokenizer::defered_tokenize
defered_tokenize(t) ==
    LET src == Src(t)
        pos_start == t.pos_region
        pos_max == Len(src)
        pos_line_start == t.pos_region - t.pos_line
        pos_token_start == t.pos_region
        line == t.line
        pos_in_line == pos_token_start - pos_line_start
        len_prev_token == pos_token_start - t.pos_region
    IN  Only({
          LET len_defered == pos - pos_token_start
          IN  IF pos < pos_max
              THEN IF ByteAt(src, pos) = LF
                   THEN Only({
                     IF ~a.ok
                     THEN [t |-> t, ret |-> a.err]
                     ELSE return_tokenized([t EXCEPT !.tokenbuf = a.tb],
                              Real("Defered",
                                   Span(t.index, pos_token_start, pos_in_line,
                                        t.pos_zero + len_prev_token, line,
                                        len_defered)))
                     : a \in { TokenBufAppend(t.tokenbuf, Real("Newline",
                                  Span(t.index, pos, pos_in_line + len_defered,
                                       t.pos_zero + len_prev_token + len_defered,
                                       line, 1))) } })
                   ELSE instruction_tokenize(t, pos, pos_start, pos_max, line, line)
              ELSE IF pos_start < pos_max
              THEN return_tokenized(t, Real("Defered",
                       Span(t.index, pos_start, t.pos_line, t.pos_zero, line,
                            pos_max - pos_start)))
              ELSE [t |-> t, ret |-> None]
          : pos \in { defered_scan(src, pos_start) } })

\* the end of the region as it would be handled if the error carried the
\* current position instead of the position of the opening instruction
instruction_args_open_here(t, s) ==
    Only({ IF ~p.ok THEN [t |-> p.t, ret |-> p.err]
           ELSE [t |-> [p.t EXCEPT !.state = "ExpectDefered"], ret |-> StateChange]
           : p \in { tokenbuf_push(t, Diag("Error", "OpenInstruction", t.pos_zero,
                                            "Tokenizer", 0)) } })

\* The rest of tokenize_instruction_args once the loop has reached the end of
\* the region (no balancing ')' was found).
instruction_args_open(t, s) ==
    LET pos_in_line == s.pos_token_start - s.pos_line_start
        len_prev_token == s.pos_token_start - t.pos_region
    IN  Only({
          IF ~p1.ok
          THEN [t |-> p1.t, ret |-> p1.err]
          ELSE Only({
            IF ~p2.ok
            THEN [t |-> p2.t, ret |-> p2.err]
            ELSE [t |-> [p2.t EXCEPT !.state = "ExpectDefered"], ret |-> StateChange]
            : p2 \in { tokenbuf_push(p1.t, Diag("Error", "OpenInstruction",
                                                t.pos_zero_prev_instr, "Tokenizer",
                                                0)) } })
          : p1 \in { IF s.pos_token_start < s.pos
                     THEN tokenbuf_push(t, Real("Defered",
                              Span(t.index, s.pos_token_start, pos_in_line,
                                   t.pos_zero + len_prev_token, s.line,
                                   s.pos - s.pos_token_start)))
                     ELSE [ok |-> TRUE, t |-> t, err |-> None] } })

\* tokenize_instruction_args at the ')' (position s.pos) that balances the
\* parentheses; t already counts it in cnt_closeparen.
instruction_args_close(t, s) ==
    LET pos_in_line == s.pos_token_start - s.pos_line_start
        len_defered == s.pos - s.pos_token_start
        len_prev_token == s.pos_token_start - t.pos_region
        t1 == [t EXCEPT !.state = "ExpectDefered"]
    IN  IF len_defered > 0
        THEN Only({
          IF ~p1.ok
          THEN [t |-> p1.t, ret |-> p1.err]
          ELSE Only({
            IF ~p2.ok
            THEN [t |-> p2.t, ret |-> p2.err]
            ELSE [t |-> p2.t, ret |-> StateChange]
            : p2 \in { tokenbuf_push(p1.t, Real("CloseParen",
                          Span(t.index, s.pos, pos_in_line + len_defered,
                               t.pos_zero + len_prev_token + len_defered, s.line,
                               1))) } })
          : p1 \in { tokenbuf_push(t1, Real("Defered",
                        Span(t.index, s.pos_token_start, pos_in_line,
                             t.pos_zero + len_prev_token, s.line, len_defered))) } })
        ELSE return_tokenized(t1, Real("CloseParen",
                 Span(t.index, s.pos, pos_in_line, t.pos_zero, s.line, 1)))

\* The loop of tokenize_instruction_args.  s holds the loop's variables pos,
\* pos_line_start, pos_token_start and line; the counters and the tokenbuf
\* change in t.
RECURSIVE instruction_args_scan(_, _)
instruction_args_scan(t, s) ==
    LET pos_in_line == s.pos_token_start - s.pos_line_start
        len_defered == s.pos - s.pos_token_start
        len_prev_token == s.pos_token_start - t.pos_region
        next_s == [s EXCEPT !.pos = @ + 1]
        b == ByteAt(Src(t), s.pos)
    IN  IF s.pos >= Len(Src(t))
        THEN instruction_args_open(t, s)
        ELSE CASE b = LF ->
                    Only({
                      IF ~a1.ok
                      THEN [t |-> t, ret |-> a1.err]
                      ELSE Only({
                        IF ~a2.ok
                        THEN [t |-> [t EXCEPT !.tokenbuf = a1.tb], ret |-> a2.err]
                        ELSE instruction_args_scan([t EXCEPT !.tokenbuf = a2.tb],
                                 [pos |-> s.pos + 1, pos_line_start |-> s.pos + 1,
                                  pos_token_start |-> s.pos + 1, line |-> s.line + 1])
                        : a2 \in { TokenBufAppend(a1.tb, Real("Newline",
                                      Span(t.index, s.pos, pos_in_line + len_defered,
                                           t.pos_zero + len_prev_token + len_defered,
                                           s.line, 1))) } })
                      : a1 \in { TokenBufAppend(t.tokenbuf, Real("Defered",
                                    Span(t.index, s.pos_token_start, pos_in_line,
                                         t.pos_zero + len_prev_token, s.line,
                                         len_defered))) } })
               [] b = LPAREN ->
                    instruction_args_scan([t EXCEPT !.cnt_openparen = @ + 1], next_s)
               [] b = RPAREN ->
                    IF t.cnt_closeparen + 1 = t.cnt_openparen
                    THEN instruction_args_close([t EXCEPT !.cnt_closeparen = @ + 1], s)
                    ELSE instruction_args_scan([t EXCEPT !.cnt_closeparen = @ + 1],
                                               next_s)
               [] OTHER -> instruction_args_scan(t, next_s)

\* tokenize_instruction_args as it would be if an '@' at the start of the
\* arguments were scanned as the start of an instruction
tokenize_instruction_args_reparse(t) ==
    IF t.pos_region < Len(Src(t)) /\ ByteAt(Src(t), t.pos_region) = AT
    THEN defered_tokenize(t)
    ELSE instruction_args_scan(t, [pos |-> t.pos_region,
                                   pos_line_start |-> t.pos_region - t.pos_line,
                                   pos_token_start |-> t.pos_region,
                                   line |-> t.line])

\* Tokenizer::tokenize_instruction_args
tokenize_instruction_args(t) ==
    instruction_args_scan(t, [pos |-> t.pos_region,
                              pos_line_start |-> t.pos_region - t.pos_line,
                              pos_token_start |-> t.pos_region,
                              line |-> t.line])

\* Tokenizer::span_slice: the bytes, NoSlice for Option::None, or SlicePanic
\* when the call panics.  The sum span.pos_region + span.length is a usize
\* sum: with overflow checks it panics on overflow, without them it wraps, and
\* the wrapped end then lies before the start, so that the slicing panics
\* unless the bounds guard has returned None.  region.len() - 1 is a usize
\* difference as well.
NoSlice == <<-1>>

SlicePanic == <<-2>>

span_slice(t, sp) ==
    IF t.state = "ExpectInput" THEN NoSlice
    ELSE IF Len(t.region) = 0 THEN SlicePanic
    ELSE IF sp.index > Len(t.region) - 1 THEN NoSlice
    ELSE LET src == t.region[sp.index + 1]
             inf == Len(src) + 1
             sum == usize_add(sp.pos_region, sp.length)
         IN  IF sum.overflow /\ overflow_checks
             THEN SlicePanic
             ELSE IF sum.value >= inf
             THEN NoSlice
             ELSE IF sum.overflow
             THEN SlicePanic
             ELSE Slice(src, sp.pos_region, sum.value)

\* an ExpectInput arm that does not remember having reported NoInput
next_expect_input_forgetful(t) ==
    [t |-> t, ret |-> Diag("Error", "NoInput", 0, "", 0)]

\* Iterator::next, the arm Ts::ExpectInput: next() without input
next_expect_input(t) ==
    IF t.parse_error_prev = "NoInput" THEN [t |-> t, ret |-> None]
    ELSE [t |-> [t EXCEPT !.parse_error_prev = "NoInput"],
          ret |-> Diag("Error", "NoInput", 0, "", 0)]

\* impl Iterator for Tokenizer: next()
TokenizerNext(t) ==
    Only({
      IF ~c.ok
      THEN [t |-> c.t, ret |-> c.ret]
      ELSE IF c.ret # None
      THEN return_tokenized(c.t, c.ret)
      ELSE CASE c.t.state = "ExpectDefered" -> defered_tokenize(c.t)
             [] c.t.state = "ExpectInstructionClose" -> tokenize_instruction_args(c.t)
             [] c.t.state = "Failed" -> [t |-> c.t, ret |-> None]
             [] c.t.state = "ExpectInput" -> next_expect_input(c.t)
      : c \in { IF t.tokenbuf.num_tokens > 0
                THEN tokenbuf_consume(t)
                ELSE [ok |-> TRUE, t |-> t, ret |-> None] } })

(***************************************************************************)
(* IncludeResolver.  A method is an operator from the resolver r to        *)
(* [r, ret, panic]: the resolver afterwards, the Option<Token> returned,   *)
(* and whether the call panicked instead of returning.  The fields         *)
(* finalized and failed of r are history: the batches, as collected in     *)
(* batchbuf, that next_resolve_include finalized and gave up.              *)
(***************************************************************************)
NoneOpt == [some |-> FALSE, v |-> 0]

Some(v) == [some |-> TRUE, v |-> v]

unwrap_or(opt, d) == IF opt.some THEN opt.v ELSE d

\* the tokens of a TokenBuf that popleft has not returned yet
Pending(tb) == SubSeq(tb.buf, Len(tb.buf) - tb.num_tokens + 1, Len(tb.buf))

IncludeResolverNew ==
    [state |-> "Passthrough", substate |-> "Uninitialized",
     tokenizer |-> TokenizerNew, tokenbuf |-> TokenBufNew,
     batchbuf |-> TokenBufNew, tokenspan_file |-> NoneOpt,
     root_dir |-> "None", include_pos_zero |-> NoneOpt,
     finalized |-> <<>>, failed |-> <<>>]

template_root_dir_set(r) == [r EXCEPT !.root_dir = "Some"]

\* Tokenizer::state_set
state_set(t, state) == [t EXCEPT !.state = state]

\* IncludeResolver::file_read: the file's bytes become a new region of the
\* tokenizer; a missing root_dir or file panics
file_read(r, filename) ==
    IF r.root_dir = "None" \/ filename \notin DOMAIN fs
    THEN [r |-> r, ok |-> FALSE, panic |-> TRUE]
    ELSE [r |-> [r EXCEPT !.tokenizer = src_push(r.tokenizer, fs[filename])],
          ok |-> TRUE, panic |-> FALSE]

\* next_passthrough as it would be if it tagged the tokens it hands on the way
\* the resolver tags the tokens of a resolved directive
next_passthrough_phantom(r) ==
    Only({
      LET r1 == [r EXCEPT !.tokenizer = n.t]
          token == n.ret
          r2 == [r1 EXCEPT !.state = "ResolveInclude",
                           !.substate = "ExpectOpenParen",
                           !.include_pos_zero = Some(token.pos_zero)]
      IN  IF token.kind = "Real" /\ token.body = "Include"
          THEN Only({
            IF a.ok
            THEN [r |-> [r2 EXCEPT !.batchbuf = a.tb], ret |-> StateChange,
                  panic |-> FALSE]
            ELSE [r |-> [r2 EXCEPT !.state = "Failed"], ret |-> a.err,
                  panic |-> FALSE]
            : a \in { TokenBufAppend(r1.batchbuf,
                         Token("Phantom", token.body, SpanOf(token))) } })
          ELSE IF token.kind = "Real"
          THEN [r |-> r1, ret |-> Phantom(token.body, SpanOf(token)),
                panic |-> FALSE]
          ELSE [r |-> r1, ret |-> token, panic |-> FALSE]
      : n \in { TokenizerNext(r.tokenizer) } })

\* IncludeResolver::next_passthrough
next_passthrough(r) ==
    Only({
      LET r1 == [r EXCEPT !.tokenizer = n.t]
          token == n.ret
          r2 == [r1 EXCEPT !.state = "ResolveInclude",
                           !.substate = "ExpectOpenParen",
                           !.include_pos_zero = Some(token.pos_zero)]
      IN  IF token.kind = "Real" /\ token.body = "Include"
          THEN Only({
            IF a.ok
            THEN [r |-> [r2 EXCEPT !.batchbuf = a.tb], ret |-> StateChange,
                  panic |-> FALSE]
            ELSE [r |-> [r2 EXCEPT !.state = "Failed"], ret |-> a.err,
                  panic |-> FALSE]
            : a \in { TokenBufAppend(r1.batchbuf,
                         Token("Phantom", token.body, SpanOf(token))) } })
          ELSE [r |-> r1, ret |-> token, panic |-> FALSE]
      : n \in { TokenizerNext(r.tokenizer) } })

\* What the three handlers of the ResolveInclude state do alike with a token
\* that is not Real and with the tokenizer's None, for which they give the
\* Error err with code code.
include_result_common(r, token, err, code) ==
    CASE token.kind = "None" ->
           [r |-> r, res |-> "Failed", panic |-> FALSE,
            tok |-> Diag("Error", err, unwrap_or(r.include_pos_zero, 0),
                         "IncludeResolver", code)]
      [] token.kind \in {"Fatal", "Error"} ->
           [r |-> r, res |-> "Failed", tok |-> token, panic |-> FALSE]
      [] OTHER ->
           [r |-> r, res |-> "Progress", tok |-> token, panic |-> FALSE]

\* IncludeResolver::next_resolve_include_expect_open_paren
next_resolve_include_expect_open_paren(r) ==
    Only({
      LET r1 == [r EXCEPT !.tokenizer = n.t]
          token == n.ret
      IN  IF token.kind = "Real"
          THEN CASE token.body = "OpenParen" ->
                      [r |-> [r1 EXCEPT !.substate = "ExpectPath"],
                       res |-> "Progress", tok |-> token, panic |-> FALSE]
                 [] token.body = "WhiteSpace" ->
                      [r |-> r1, res |-> "Progress", tok |-> token, panic |-> FALSE]
                 [] OTHER ->
                      [r |-> [r1 EXCEPT !.state = "Passthrough",
                                        !.substate = "Uninitialized"],
                       res |-> "Failed", tok |-> token, panic |-> FALSE]
          ELSE include_result_common(r1, token, "InstructionNotOpen", 1)
      : n \in { TokenizerNext(r.tokenizer) } })

\* IncludeResolver::next_resolve_include_expect_path
next_resolve_include_expect_path(r) ==
    Only({
      LET r1 == [r EXCEPT !.tokenizer = n.t]
          token == n.ret
      IN  IF token.kind = "Real"
          THEN IF token.body = "Defered"
               THEN [r |-> [r1 EXCEPT !.substate = "ExpectCloseParen",
                                      !.tokenspan_file = Some(SpanOf(token))],
                     res |-> "Progress", tok |-> token, panic |-> FALSE]
               ELSE [r |-> r1, res |-> "Failed", tok |-> token, panic |-> TRUE]
          ELSE include_result_common(r1, token, "InstructionMissingArgs", 2)
      : n \in { TokenizerNext(r.tokenizer) } })

\* next_resolve_include_expect_close_paren on Real(CloseParen) with the path's
\* span remembered in tokenspan_file
include_close_paren_resolve(r, tok) ==
    LET span == r.tokenspan_file.v
        r1 == [r EXCEPT !.tokenspan_file = NoneOpt,
                        !.tokenizer = state_set(r.tokenizer, "ExpectDefered")]
    IN  Only({
          IF slice # NoSlice
          THEN Only({
            IF f.panic
            THEN [r |-> f.r, res |-> "Failed", tok |-> tok, panic |-> TRUE]
            ELSE [r |-> [f.r EXCEPT !.substate = "Uninitialized",
                                     !.state = "Passthrough"],
                  res |-> "Finalized", tok |-> tok, panic |-> FALSE]
            : f \in { file_read(r1, slice) } })
          ELSE Only({
            IF ~a.ok
            THEN [r |-> [r1 EXCEPT !.state = "Failed"], res |-> "Failed",
                  tok |-> a.err, panic |-> FALSE]
            ELSE [r |-> [r1 EXCEPT !.batchbuf = a.tb], res |-> "Failed",
                  panic |-> FALSE,
                  tok |-> Diag("Error", "InternalError",
                               unwrap_or(r.include_pos_zero, 0), "IncludeResolver",
                               4)]
            : a \in { TokenBufAppend(r1.batchbuf, tok) } })
          : slice \in { span_slice(r1.tokenizer, span) } })

\* next_resolve_include_expect_close_paren on Real(CloseParen) with no path
include_close_paren_empty(r, tok) ==
    LET r1 == [r EXCEPT !.state = "Passthrough", !.substate = "Uninitialized"]
    IN  Only({
          IF ~a.ok
          THEN [r |-> [r1 EXCEPT !.state = "Failed"], res |-> "Failed",
                tok |-> a.err, panic |-> FALSE]
          ELSE [r |-> [r1 EXCEPT !.batchbuf = a.tb], res |-> "Failed",
                panic |-> FALSE,
                tok |-> Diag("Error", "InstructionMissingArgs",
                             unwrap_or(r.include_pos_zero, 0), "IncludeResolver", 5)]
          : a \in { TokenBufAppend(r1.batchbuf, tok) } })

\* IncludeResolver::next_resolve_include_expect_close_paren
next_resolve_include_expect_close_paren(r) ==
    Only({
      LET r1 == [r EXCEPT !.tokenizer = n.t]
          token == n.ret
      IN  IF token.kind = "Real"
          THEN IF token.body = "CloseParen"
               THEN IF r1.tokenspan_file.some
                    THEN include_close_paren_resolve(r1, token)
                    ELSE include_close_paren_empty(r1, token)
               ELSE [r |-> [r1 EXCEPT !.state = "Passthrough",
                                      !.substate = "Uninitialized"],
                     res |-> "Failed", tok |-> token, panic |-> FALSE]
          ELSE include_result_common(r1, token, "OpenInstruction", 3)
      : n \in { TokenizerNext(r.tokenizer) } })

\* IncludeResolver::next_resolve_include_by_substate
next_resolve_include_by_substate(r) ==
    CASE r.substate = "ExpectOpenParen" -> next_resolve_include_expect_open_paren(r)
      [] r.substate = "ExpectPath" -> next_resolve_include_expect_path(r)
      [] r.substate = "ExpectCloseParen" -> next_resolve_include_expect_close_paren(r)
      [] r.substate = "Uninitialized" ->
           [r |-> r, res |-> "Failed", tok |-> None, panic |-> TRUE]

\* next_resolve_include_finalized's rewrite as it would be if the tokens
\* were handed on as collected
finalized_token_unchanged(tok) == tok

\* a batch token as next_resolve_include_finalized hands it on: Real becomes
\* Phantom with the same body and span
finalized_token(tok) ==
    IF tok.kind = "Real" THEN Phantom(tok.body, SpanOf(tok)) ELSE tok

\* The loop of next_resolve_include_finalized: batchbuf is emptied, the first
\* token is held back in firstitem, the others go to tokenbuf.
RECURSIVE finalized_loop(_, _)
finalized_loop(r, firstitem) ==
    Only({
      LET r1 == [r EXCEPT !.batchbuf = p.tb]
      IN  IF ~p.ok
          THEN [r |-> [r1 EXCEPT !.state = "Failed"], ret |-> p.ret, panic |-> FALSE]
          ELSE IF p.ret = None
          THEN IF firstitem.some
               THEN [r |-> r1, ret |-> firstitem.v, panic |-> FALSE]
               ELSE [r |-> [r1 EXCEPT !.state = "Failed"], panic |-> FALSE,
                     ret |-> Diag("Fatal", "InternalError", 0, "IncludeResolver", 6)]
          ELSE IF p.ret.kind = "StateChange"
          THEN finalized_loop(r1, firstitem)
          ELSE Only({
            IF ~firstitem.some
            THEN finalized_loop(r1, Some(tok))
            ELSE Only({
              IF ~a.ok
              THEN [r |-> [r1 EXCEPT !.state = "Failed"], ret |-> a.err,
                    panic |-> FALSE]
              ELSE finalized_loop([r1 EXCEPT !.tokenbuf = a.tb], firstitem)
              : a \in { TokenBufAppend(r1.tokenbuf, tok) } })
            : tok \in { finalized_token(p.ret) } })
      : p \in { TokenBufPopleft(r.batchbuf) } })

\* IncludeResolver::next_resolve_include_finalized
next_resolve_include_finalized(r) ==
    LET pos_zero == unwrap_or(r.include_pos_zero, 0)
        r1 == [r EXCEPT !.include_pos_zero = NoneOpt]
    IN  IF Len(r1.batchbuf.buf) < 1
        THEN [r |-> [r1 EXCEPT !.state = "Failed"], panic |-> FALSE,
              ret |-> Diag("Fatal", "InternalError", pos_zero, "IncludeResolver", 7)]
        ELSE Only({ IF f.ret.kind = "Fatal" /\ f.ret.code = 6
                    THEN [f EXCEPT !.ret.pos_zero = pos_zero]
                    ELSE f
                    : f \in { finalized_loop(r1, NoneOpt) } })

\* The loop of next_resolve_include and what follows it
RECURSIVE resolve_include_loop(_)
resolve_include_loop(r) ==
    Only({
      IF h.panic
      THEN [r |-> h.r, ret |-> None, panic |-> TRUE]
      ELSE Only({
        LET r1 == [h.r EXCEPT !.batchbuf = a.tb]
        IN  IF ~a.ok
            THEN [r |-> [h.r EXCEPT !.state = "Failed"], ret |-> a.err,
                  panic |-> FALSE]
            ELSE CASE h.res = "Progress" -> resolve_include_loop(r1)
                   [] h.res = "Finalized" ->
                        next_resolve_include_finalized(
                            [r1 EXCEPT !.finalized = Append(@, Pending(r1.batchbuf))])
                   [] h.res = "Failed" ->
                        [r |-> [r1 EXCEPT !.failed = Append(@, Pending(r1.batchbuf))],
                         ret |-> None, panic |-> FALSE]
        : a \in { IF h.tok.kind = "StateChange"
                  THEN [ok |-> TRUE, tb |-> h.r.batchbuf, err |-> None]
                  ELSE TokenBufAppend(h.r.batchbuf, h.tok) } })
      : h \in { next_resolve_include_by_substate(r) } })

\* IncludeResolver::next_resolve_include
next_resolve_include(r) ==
    IF Len(r.batchbuf.buf) # 1
    THEN [r |-> r, ret |-> None, panic |-> TRUE]
    ELSE resolve_include_loop(r)

\* impl Iterator for IncludeResolver: next()
IncludeResolverNext(r) ==
    Only({
      LET r1 == [r EXCEPT !.tokenbuf = p.tb]
      IN  IF ~p.ok \/ p.ret # None
          THEN [r |-> r1, ret |-> p.ret, panic |-> FALSE]
          ELSE CASE r1.state = "Passthrough" -> next_passthrough(r1)
                 [] r1.state = "ResolveInclude" -> next_resolve_include(r1)
                 [] r1.state = "Failed" -> [r |-> r1, ret |-> None, panic |-> FALSE]
      : p \in { TokenBufPopleft(r.tokenbuf) } })

(***************************************************************************)
(* The Tokenizer driven directly: src_push and next() calls in any order.  *)
(* result is what the last call of next() returned, delivered everything   *)
(* next() has returned so far, before the Tokenizer as it was when the     *)
(* last call of next() began.                                              *)
(***************************************************************************)
\* the most calls of next() in one behaviour
MaxCalls == 10

\* the most pieces the single region of SpecSingle is built of
MaxPieces == 3

\* the most regions pushed onto one Tokenizer in SpecMulti
MaxRegions == 3

\* the most pieces the base region of SpecResolver is built of
MaxIncludePieces == 3

Pieces == { <<AT>> \o IncludeIdent, <<AT>> \o IncludeIdent \o <<LPAREN>>,
            <<LPAREN>>, <<RPAREN>>, <<LF>>, <<SP>>, <<LowerZ>>, <<AT>> }

IncludePieces == { <<AT>> \o IncludeIdent, <<LPAREN>>, <<RPAREN>>, <<LF>>, <<SP>>,
                   <<LowerZ>>, <<LPAREN, LowerZ, RPAREN>>,
                   <<AT>> \o IncludeIdent \o <<LPAREN, LowerZ, RPAREN>> }

\* the most tokens appended to the TokenBuf of SpecTokenBuf
MaxAppends == 4

\* the tokens a caller appends in SpecTokenBuf
TestTokens == { Real("Defered", Span(0, 0, 0, 0, 0, 1)), Real("Newline", Span(0, 1, 1, 1, 0, 1)) }

\* the most pieces the first region of SpecTermination is built of
MaxLoopPieces == 2

\* the most regions pushed onto the Tokenizer in SpecTermination
MaxLoopRegions == 2

\* the most pieces the one region of SpecInstruction is built of
MaxInstructionPieces == 3

\* the pieces the region of SpecInstruction is built of: whole instructions,
\* instructions with whitespace before the '(', an '@' that opens none, and
\* the bytes that may come before, between and after them
InstructionPieces ==
    { <<AT>> \o IncludeIdent \o <<LPAREN, RPAREN>>,
      <<AT>> \o IncludeIdent \o <<LPAREN>>,
      <<AT>> \o IncludeIdent \o <<SP, LPAREN>>,
      <<AT>> \o IncludeIdent \o <<LF, LPAREN>>,
      <<AT, SP, LPAREN>>, <<AT, RPAREN, LPAREN>>,
      <<LowerZ>>, <<AT>>, <<LF>>, <<RPAREN>> }

\* the pieces the first region of SpecTermination is built of
LoopPieces == { <<AT>> \o IncludeIdent, <<AT>> \o IncludeIdent \o <<LPAREN>>,
                <<RPAREN>>, <<LF>>, <<LowerZ>>, <<AT>> }

\* the most line feeds in the one region of SpecMemory
MaxNewlines == 16

\* n line feeds
Newlines(n) == [i \in 1..n |-> LF]

\* the regions of SpecMemory: an instruction whose name or whose arguments are
\* followed by many lines, each line queueing tokens in the TokenBuf
LongRegions ==
    { prefix \o Newlines(n) \o suffix :
         prefix \in { <<AT>> \o IncludeIdent, <<AT>> \o IncludeIdent \o <<LPAREN>> },
         n \in 0..MaxNewlines,
         suffix \in { <<>>, <<LPAREN>>, <<RPAREN>> } }

\* the byte strings built of at most n of the pieces ps
RECURSIVE Regions(_, _)
Regions(ps, n) ==
    IF n = 0 THEN { <<>> }
    ELSE Regions(ps, n - 1) \cup { r \o p : r \in Regions(ps, n - 1), p \in ps }

PushedRegions == { <<>>, <<LowerA>>, <<LowerZ, LF, LowerZ>> }

\* the template directory: no file, or the one file "z" with some content
FileSystems ==
    { [name \in {} |-> <<>>] }
    \cup { [name \in { <<LowerZ>> } |-> content] :
              content \in { <<>>, <<LowerA>> } }

\* no call made on the TokenBuf yet
NoCall == [call |-> "none", arg |-> None, was |-> TokenBufNew, ok |-> TRUE, ret |-> None]

\* the TokenBuf as constructed, no call made on it
TokenBufInit ==
    /\ tbuf = TokenBufNew
    /\ appended = <<>>
    /\ popped = <<>>
    /\ tb_result = NoCall

\* no span_slice call made
NotCalled == <<-3>>

NoSlicing ==
    /\ slice_span = [index |-> 0, pos_region |-> 0, length |-> 0]
    /\ slice_ret = NotCalled

\* the default build with memory to allocate from
DefaultBuild ==
    /\ memory = "Available"
    /\ features = {}

Init ==
    /\ tokenizer = TokenizerNew
    /\ resolver = IncludeResolverNew
    /\ fs = [name \in {} |-> <<>>]
    /\ panicked = FALSE
    /\ result = None
    /\ delivered = <<>>
    /\ before = TokenizerNew
    /\ TokenBufInit
    /\ NoSlicing
    /\ DefaultBuild

\* a caller's Tokenizer::src_push of the one region of SpecSingle
SrcPushSingle ==
    /\ tokenizer.region = <<>>
    /\ \E buf \in Regions(Pieces, MaxPieces) :
          tokenizer' = src_push(tokenizer, buf)
    /\ UNCHANGED <<resolver, fs, panicked, result, delivered, before, tbuf_vars, build_vars, span_vars>>

\* a caller's Tokenizer::src_push
SrcPush ==
    /\ Len(tokenizer.region) < MaxRegions
    /\ \E buf \in PushedRegions :
          tokenizer' = src_push(tokenizer, buf)
    /\ UNCHANGED <<resolver, fs, panicked, result, delivered, before, tbuf_vars, build_vars, span_vars>>

\* a caller's Tokenizer::next()
TokNext ==
    /\ Len(delivered) < MaxCalls
    /\ \E r \in { TokenizerNext(tokenizer) } :
          /\ tokenizer' = r.t
          /\ result' = r.ret
          /\ delivered' = Append(delivered, r.ret)
          /\ before' = tokenizer
    /\ UNCHANGED <<resolver, fs, panicked, tbuf_vars, build_vars, span_vars>>

NextSingle == SrcPushSingle \/ TokNext

SpecSingle == Init /\ [][NextSingle]_vars

NextMulti == SrcPush \/ TokNext

SpecMulti == Init /\ [][NextMulti]_vars

(***************************************************************************)
(* The IncludeResolver driven by a caller that may set the template        *)
(* directory, pushes the base region onto the resolver's tokenizer and     *)
(* then calls next().  result and delivered are about the resolver's       *)
(* next(); a call that panics returns nothing and ends the program.        *)
(***************************************************************************)
InitResolver ==
    /\ tokenizer = TokenizerNew
    /\ resolver = IncludeResolverNew
    /\ fs \in FileSystems
    /\ panicked = FALSE
    /\ result = None
    /\ delivered = <<>>
    /\ before = TokenizerNew
    /\ TokenBufInit
    /\ NoSlicing
    /\ DefaultBuild

\* a caller's IncludeResolver::template_root_dir_set, before iterating
TemplateRootDirSet ==
    /\ ~panicked
    /\ resolver.root_dir = "None"
    /\ delivered = <<>>
    /\ resolver' = template_root_dir_set(resolver)
    /\ UNCHANGED <<tokenizer, fs, panicked, result, delivered, before, tbuf_vars, build_vars, span_vars>>

\* a caller's resolver.tokenizer.src_push of the base region
ResolverSrcPush ==
    /\ ~panicked
    /\ resolver.tokenizer.region = <<>>
    /\ \E buf \in Regions(IncludePieces, MaxIncludePieces) :
          resolver' = [resolver EXCEPT !.tokenizer = src_push(@, buf)]
    /\ UNCHANGED <<tokenizer, fs, panicked, result, delivered, before, tbuf_vars, build_vars, span_vars>>

\* a caller's IncludeResolver::next()
ResolverNext ==
    /\ ~panicked
    /\ resolver.tokenizer.region # <<>>
    /\ Len(delivered) < MaxCalls
    /\ \E n \in { IncludeResolverNext(resolver) } :
          /\ resolver' = n.r
          /\ panicked' = n.panic
          /\ result' = IF n.panic THEN result ELSE n.ret
          /\ delivered' = IF n.panic THEN delivered ELSE Append(delivered, n.ret)
    /\ UNCHANGED <<tokenizer, fs, before, tbuf_vars, build_vars, span_vars>>

NextResolver == TemplateRootDirSet \/ ResolverSrcPush \/ ResolverNext

SpecResolver == InitResolver /\ [][NextResolver]_vars

(***************************************************************************)
(* The Tokenizer on one region in which instructions follow other          *)
(* instructions and runs of content on the same line.                      *)
(***************************************************************************)
\* a caller's Tokenizer::src_push of the one region of SpecInstruction
SrcPushInstruction ==
    /\ tokenizer.region = <<>>
    /\ \E buf \in Regions(InstructionPieces, MaxInstructionPieces) :
          tokenizer' = src_push(tokenizer, buf)
    /\ UNCHANGED <<resolver, fs, panicked, result, delivered, before, tbuf_vars, build_vars, span_vars>>

NextInstruction == SrcPushInstruction \/ TokNext

SpecInstruction == Init /\ [][NextInstruction]_vars

(***************************************************************************)
(* The Tokenizer on one region that holds an instruction with a run of     *)
(* spaces and newlines between 'include' and '(', at the start of the      *)
(* region or after an earlier instruction on the same line.                *)
(***************************************************************************)
\* the most bytes between 'include' and '(' in SpecWhitespace
MaxWhitespace == 5

\* the runs of spaces and newlines of up to n bytes
RECURSIVE WhitespaceRuns(_)
WhitespaceRuns(n) ==
    IF n = 0 THEN { <<>> }
    ELSE WhitespaceRuns(n - 1)
         \cup { r \o <<b>> : r \in WhitespaceRuns(n - 1), b \in {SP, LF} }

\* the regions of SpecWhitespace
WhitespaceRegions ==
    { pre \o <<AT>> \o IncludeIdent \o ws \o <<LPAREN>> \o post :
         pre \in { <<>>, <<AT>> \o IncludeIdent \o <<LPAREN, RPAREN>> },
         ws \in WhitespaceRuns(MaxWhitespace),
         post \in { <<>>, <<RPAREN>> } }

\* a caller's Tokenizer::src_push of the one region of SpecWhitespace
SrcPushWhitespace ==
    /\ tokenizer.region = <<>>
    /\ \E buf \in WhitespaceRegions :
          tokenizer' = src_push(tokenizer, buf)
    /\ UNCHANGED <<resolver, fs, panicked, result, delivered, before, tbuf_vars, build_vars, span_vars>>

NextWhitespace == SrcPushWhitespace \/ TokNext

SpecWhitespace == Init /\ [][NextWhitespace]_vars

(***************************************************************************)
(* The Tokenizer with a caller that pushes regions, then calls next(), and *)
(* at any time asks span_slice for the bytes of Spans of its own making,   *)
(* in a build with or without overflow checks.                             *)
(***************************************************************************)
\* the most regions pushed in SpecSpan
MaxSpanRegions == 2

\* the regions pushed in SpecSpan
SpanRegions == PushedRegions

\* the Spans asked for: in and out of every region pushed, up to usize::MAX
TestSpans ==
    { [index |-> i, pos_region |-> p, length |-> l] :
         i \in 0 .. MaxSpanRegions, p \in {0, 1, UsizeMax}, l \in {0, 2, 3, UsizeMax} }

InitSpan ==
    /\ tokenizer = TokenizerNew
    /\ resolver = IncludeResolverNew
    /\ fs = [name \in {} |-> <<>>]
    /\ panicked = FALSE
    /\ result = None
    /\ delivered = <<>>
    /\ before = TokenizerNew
    /\ TokenBufInit
    /\ NoSlicing
    /\ memory = "Available"
    /\ features \in { {}, {"overflow_checks"} }

\* a caller's Tokenizer::src_push in SpecSpan: the regions are pushed before
\* the first next(), one on top of the other
SrcPushSpan ==
    /\ Len(tokenizer.region) < MaxSpanRegions
    /\ delivered = <<>>
    /\ \E buf \in SpanRegions :
          tokenizer' = src_push(tokenizer, buf)
    /\ UNCHANGED <<resolver, fs, panicked, result, delivered, before, tbuf_vars, build_vars, span_vars>>

\* a caller's Tokenizer::span_slice(&self, span); a call that panics returns
\* nothing and ends the program
SpanSliceCall ==
    /\ ~panicked
    /\ \E sp \in TestSpans :
          /\ slice_span' = sp
          /\ slice_ret' = span_slice(tokenizer, sp)
    /\ panicked' = (slice_ret' = SlicePanic)
    /\ UNCHANGED <<tokenizer, resolver, fs, result, delivered, before, tbuf_vars, build_vars>>

\* next() of the Tokenizer while the program runs
SpanTokNext == ~panicked /\ TokNext

NextSpan == SrcPushSpan \/ SpanTokNext \/ SpanSliceCall

SpecSpan == InitSpan /\ [][NextSpan]_vars

(***************************************************************************)
(* The Tokenizer driven by a caller's loop                                 *)
(*     while let Some(token) = tokenizer.next() { ... }                    *)
(* The caller pushes a first region, and may push more before the loop or  *)
(* from its body; the loop ends at the first None.  The caller keeps       *)
(* iterating (weak fairness of IterateNext).                               *)
(***************************************************************************)
\* the calls of next() the caller's loop is followed for: more than the
\* bytes pushed can account for
IterationLimit == 4 * (MaxLoopPieces + MaxLoopRegions)

\* a caller's Tokenizer::src_push of the first region of SpecTermination
SrcPushFirst ==
    /\ tokenizer.region = <<>>
    /\ \E buf \in Regions(LoopPieces, MaxLoopPieces) :
          tokenizer' = src_push(tokenizer, buf)
    /\ UNCHANGED <<resolver, fs, panicked, result, delivered, before, tbuf_vars, build_vars, span_vars>>

\* the loop has not ended: no call made yet, or the last one returned Some
Iterating == delivered = <<>> \/ result # None

\* a caller's Tokenizer::src_push of a further region
SrcPushMore ==
    /\ tokenizer.region # <<>>
    /\ Len(tokenizer.region) < MaxLoopRegions
    /\ Iterating
    /\ \E buf \in PushedRegions :
          tokenizer' = src_push(tokenizer, buf)
    /\ UNCHANGED <<resolver, fs, panicked, result, delivered, before, tbuf_vars, build_vars, span_vars>>

\* one iteration of the caller's loop: Tokenizer::next()
IterateNext ==
    /\ tokenizer.region # <<>>
    /\ Iterating
    /\ Len(delivered) < IterationLimit
    /\ \E r \in { TokenizerNext(tokenizer) } :
          /\ tokenizer' = r.t
          /\ result' = r.ret
          /\ delivered' = Append(delivered, r.ret)
          /\ before' = tokenizer
    /\ UNCHANGED <<resolver, fs, panicked, tbuf_vars, build_vars, span_vars>>

NextTermination == SrcPushFirst \/ SrcPushMore \/ IterateNext

SpecTermination == Init /\ [][NextTermination]_vars /\ WF_vars(IterateNext)

(***************************************************************************)
(* The IncludeResolver driven by the same loop of a caller,                *)
(*     while let Some(token) = resolver.next() { ... }                     *)
(* after the template directory may have been set and the base region was  *)
(* pushed.  A call that panics ends the program: the loop never sees None.  *)
(***************************************************************************)
\* the calls of IncludeResolver::next() the caller's loop is followed for
ResolverIterationLimit == 8 * MaxIncludePieces

\* one iteration of the caller's loop: IncludeResolver::next()
ResolverIterateNext ==
    /\ ~panicked
    /\ resolver.tokenizer.region # <<>>
    /\ Iterating
    /\ Len(delivered) < ResolverIterationLimit
    /\ \E n \in { IncludeResolverNext(resolver) } :
          /\ resolver' = n.r
          /\ panicked' = n.panic
          /\ result' = IF n.panic THEN result ELSE n.ret
          /\ delivered' = IF n.panic THEN delivered ELSE Append(delivered, n.ret)
    /\ UNCHANGED <<tokenizer, fs, before, tbuf_vars, build_vars, span_vars>>

NextResolverTermination == TemplateRootDirSet \/ ResolverSrcPush \/ ResolverIterateNext

SpecResolverTermination == InitResolver /\ [][NextResolverTermination]_vars /\ WF_vars(ResolverIterateNext)

(***************************************************************************)
(* The Tokenizer in a process that may run out of memory at any moment:    *)
(* from then on every try_reserve fails.  The one region is long enough    *)
(* for the TokenBuf to outgrow its initial capacity.                       *)
(***************************************************************************)
\* a caller's Tokenizer::src_push of the one region of SpecMemory
SrcPushLong ==
    /\ tokenizer.region = <<>>
    /\ \E buf \in LongRegions :
          tokenizer' = src_push(tokenizer, buf)
    /\ UNCHANGED <<resolver, fs, panicked, result, delivered, before, tbuf_vars, build_vars, span_vars>>

\* the allocator runs out of memory
MemoryExhaust ==
    /\ memory = "Available"
    /\ memory' = "Exhausted"
    /\ UNCHANGED <<tokenizer, resolver, fs, panicked, result, delivered, before, tbuf_vars, features, span_vars>>

NextMemory == SrcPushLong \/ MemoryExhaust \/ TokNext

SpecMemory == Init /\ [][NextMemory]_vars

(***************************************************************************)
(* The Tokenizer with a caller that pushes more regions than the Vecs of   *)
(* Tokenizer::new have room for, while the allocator may run out of        *)
(* memory.                                                                 *)
(***************************************************************************)
\* the most regions pushed in SpecPush
MaxPushes == 9

\* a caller's Tokenizer::src_push in SpecPush; the call may fail
SrcPushMany ==
    /\ Len(tokenizer.region) < MaxPushes
    /\ tokenizer.state # "Failed"
    /\ \E buf \in { <<LowerA>> } :
          tokenizer' = src_push(tokenizer, buf)
    /\ UNCHANGED <<resolver, fs, panicked, result, delivered, before, tbuf_vars, build_vars, span_vars>>

NextPush == SrcPushMany \/ MemoryExhaust \/ TokNext

SpecPush == Init /\ [][NextPush]_vars

(***************************************************************************)
(* A TokenBuf driven by a caller that appends and pops in any order, in a  *)
(* build with or without the feature tokenbuf_push_guard.  tb_result is    *)
(* the last call: its name, its argument, the TokenBuf it was made on      *)
(* (was) and what it returned; appended and popped are the tokens that     *)
(* append accepted and popleft returned, in order.                         *)
(***************************************************************************)
InitTokenBuf ==
    /\ tokenizer = TokenizerNew
    /\ resolver = IncludeResolverNew
    /\ fs = [name \in {} |-> <<>>]
    /\ panicked = FALSE
    /\ result = None
    /\ delivered = <<>>
    /\ before = TokenizerNew
    /\ TokenBufInit
    /\ NoSlicing
    /\ memory = "Available"
    /\ features \in { {}, {"tokenbuf_push_guard"} }

\* a caller's TokenBuf::append
TokenBufAppendCall ==
    /\ Len(appended) < MaxAppends
    /\ \E token \in TestTokens : \E r \in { TokenBufAppend(tbuf, token) } :
          /\ tbuf' = r.tb
          /\ appended' = IF r.ok THEN Append(appended, token) ELSE appended
          /\ tb_result' = [call |-> "append", arg |-> token, was |-> tbuf,
                           ok |-> r.ok, ret |-> r.err]
    /\ UNCHANGED <<tokenizer, resolver, fs, panicked, result, delivered, before, popped, build_vars, span_vars>>

\* a caller's TokenBuf::popleft
TokenBufPopleftCall ==
    /\ \E r \in { TokenBufPopleft(tbuf) } :
          /\ tbuf' = r.tb
          /\ popped' = IF r.ok /\ r.ret # None THEN Append(popped, r.ret) ELSE popped
          /\ tb_result' = [call |-> "popleft", arg |-> None, was |-> tbuf,
                           ok |-> r.ok, ret |-> r.ret]
    /\ UNCHANGED <<tokenizer, resolver, fs, panicked, result, delivered, before, appended, build_vars, span_vars>>

NextTokenBuf == TokenBufAppendCall \/ TokenBufPopleftCall

SpecTokenBuf == InitTokenBuf /\ [][NextTokenBuf]_vars

(***************************************************************************)
(* Claims about the Tokenizer                                              *)
(***************************************************************************)
Last(seq) == seq[Len(seq)]

IsDiagnostic(tok) == tok.kind \in {"Warning", "Error", "Fatal"}

\* the caller has called next() until it returned None, with no src_push since
Drained ==
    /\ delivered # <<>>
    /\ Last(delivered) = None
    /\ tokenizer.region = before.region

RealsDelivered == SelectSeq(delivered, LAMBDA tok : tok.kind = "Real")

SpansDelivered == SelectSeq(delivered, HasSpan)

\* toks cover the bytes of src from the first to the last, without gap or overlap
Tiles(toks, src) ==
    /\ toks = <<>> => Len(src) = 0
    /\ toks # <<>> =>
          /\ toks[1].pos_region = 0
          /\ \A i \in 1..(Len(toks) - 1) :
                toks[i + 1].pos_region = toks[i].pos_region + toks[i].length
          /\ Last(toks).pos_region + Last(toks).length = Len(src)

\* C1: round trip.  For a single pushed region S and a caller that has called
\* next() until None, if no Warning, Error or Fatal was delivered, the spans of
\* the delivered Real tokens tile S from byte 0 to len(S) in delivery order.
C1_RoundTrip ==
    ( /\ Len(tokenizer.region) = 1
      /\ Drained
      /\ \A i \in DOMAIN delivered : ~IsDiagnostic(delivered[i]) )
    => Tiles(RealsDelivered, tokenizer.region[1])

\* The token the last call of next() handed to return_tokenized's region-end
\* step: the delivered token, or the one queued again when a Fatal took its
\* place.
Handed ==
    IF HasSpan(result) THEN result
    ELSE IF /\ result.kind = "Fatal"
            /\ before.parse_error_prev # "InternalError"
            /\ tokenizer.tokenbuf.buf # <<>>
    THEN Last(tokenizer.tokenbuf.buf)
    ELSE None

\* the last call of next() handled the token that consumes the last byte of a
\* region other than the base region
ConsumedLastByte ==
    /\ delivered # <<>>
    /\ tokenizer.region = before.region
    /\ HasSpan(Handed)
    /\ before.index > 0
    /\ Handed.index = before.index
    /\ Handed.pos_region = before.pos_region
    /\ Handed.pos_line = before.pos_line
    /\ Handed.pos_zero = before.pos_zero
    /\ Handed.line = before.line
    /\ Handed.pos_region + Handed.length = Len(before.region[before.index + 1])
    /\ before.state_snap # <<>>

\* C2: snapshot restore.  When the token that consumes the last byte of a
\* non-base region is delivered, the Tokenizer resumes where the popped
\* StateSnap says: index, pos_region, pos_line and line are the snapshot's,
\* pos_max is the length of that region, and the token itself is delivered
\* rather than a Fatal, for every order of pushes.
C2_SnapshotRestore ==
    ConsumedLastByte =>
        LET snap == Last(before.state_snap)
        IN  /\ result = Handed
            /\ tokenizer.index = snap.index
            /\ tokenizer.pos_region = snap.pos_region
            /\ tokenizer.pos_line = snap.pos_line
            /\ tokenizer.line = snap.line
            /\ tokenizer.pos_max = Len(tokenizer.region[snap.index + 1])

\* C3: push/pop accounting.  After N >= 1 calls of src_push followed by
\* calling next() until it returns None, state_snap holds only the entry of
\* the base region and index is 0.
C3_PushPopAccounting ==
    (Len(tokenizer.region) >= 1 /\ Drained)
    => (Len(tokenizer.state_snap) = 1 /\ tokenizer.index = 0)

\* C4: position discipline.  Every Real or Phantom token returned by next()
\* has the span (index, pos_region, pos_line, pos_zero, line) the Tokenizer
\* had immediately before that delivery.
C4_PositionDiscipline ==
    (delivered # <<>> /\ HasSpan(result)) =>
        /\ result.index = before.index
        /\ result.pos_region = before.pos_region
        /\ result.pos_line = before.pos_line
        /\ result.pos_zero = before.pos_zero
        /\ result.line = before.line

\* a token buffered by the scanner, behind others, has been delivered
C4_Witness ==
    /\ delivered # <<>>
    /\ HasSpan(result)
    /\ result.body = "CloseParen"
    /\ before.tokenbuf.num_tokens > 0

\* C5: contiguity of the global offset.  For any two consecutive span-carrying
\* tokens returned by next(), the later one's pos_zero is the earlier one's
\* pos_zero plus its length, also across a src_push or a region pop.
C5_Contiguity ==
    \A i \in 1..(Len(SpansDelivered) - 1) :
        SpansDelivered[i + 1].pos_zero
            = SpansDelivered[i].pos_zero + SpansDelivered[i].length

\* two consecutive span-carrying tokens of different regions, the later one
\* of the outer region after the pop
C5_Witness ==
    \E i \in 1..(Len(SpansDelivered) - 1) :
        /\ SpansDelivered[i].index > SpansDelivered[i + 1].index
        /\ SpansDelivered[i].length > 0
        /\ SpansDelivered[i + 1].pos_region > 0

\* C6: strict monotonicity.  For any two consecutive span-carrying tokens
\* returned by next(), the later one's pos_zero is strictly greater; the
\* Tokenizer never delivers a span-carrying token of length 0.
C6_StrictMonotonicity ==
    /\ \A i \in 1..(Len(SpansDelivered) - 1) :
          SpansDelivered[i + 1].pos_zero > SpansDelivered[i].pos_zero
    /\ \A i \in DOMAIN SpansDelivered : SpansDelivered[i].length > 0

(***************************************************************************)
(* Claims about the IncludeResolver                                        *)
(***************************************************************************)
RECURSIVE Flatten(_)
Flatten(seqs) == IF seqs = <<>> THEN <<>> ELSE Head(seqs) \o Flatten(Tail(seqs))

RECURSIVE IsSubsequence(_, _)
IsSubsequence(a, b) ==
    IF a = <<>> THEN TRUE
    ELSE IF b = <<>> THEN FALSE
    ELSE IF Head(a) = Head(b) THEN IsSubsequence(Tail(a), Tail(b))
    ELSE IsSubsequence(a, Tail(b))

AsPhantom(toks) == [i \in DOMAIN toks |-> Phantom(toks[i].body, SpanOf(toks[i]))]

AsReal(tok) == IF tok.kind = "Phantom" THEN Real(tok.body, SpanOf(tok)) ELSE tok

\* the span-carrying tokens of all finalized batches, as they were collected
FinalizedSpans == SelectSeq(Flatten(resolver.finalized), HasSpan)

PhantomsDelivered == SelectSeq(delivered, LAMBDA tok : tok.kind = "Phantom")

PhantomsQueued ==
    SelectSeq(Pending(resolver.tokenbuf), LAMBDA tok : tok.kind = "Phantom")

\* C7: Phantom rewrite.  The span-carrying tokens of every finalized @include
\* batch are delivered by the resolver's next() as Phantom with unchanged body
\* and span, in the order the Tokenizer produced them (those not delivered yet
\* wait in that order in the resolver's tokenbuf), and none is delivered Real.
C7_PhantomRewrite ==
    /\ PhantomsDelivered \o PhantomsQueued = AsPhantom(FinalizedSpans)
    /\ \A i \in DOMAIN delivered : \A j \in DOMAIN FinalizedSpans :
          delivered[i].kind = "Real" =>
              \/ delivered[i].body # FinalizedSpans[j].body
              \/ SpanOf(delivered[i]) # SpanOf(FinalizedSpans[j])

\* a batch with whitespace before '(' was finalized and delivered completely
C7_Witness ==
    /\ resolver.finalized # <<>>
    /\ PhantomsQueued = <<>>
    /\ \E i \in DOMAIN delivered :
          delivered[i].kind = "Phantom" /\ delivered[i].body = "WhiteSpace"
    /\ \E i \in DOMAIN delivered :
          delivered[i].kind = "Phantom" /\ delivered[i].body = "CloseParen"

\* the places in delivered of the span-carrying tokens
SpanPlaces == { i \in DOMAIN delivered : HasSpan(delivered[i]) }

\* C8: include ordering.  For the j-th finalized @include, whose file became
\* region j: the directive's Phantoms are delivered before any token of
\* region j, every token of region j before any token for the bytes after
\* ')' in the including region, and once the caller has called next() until
\* None the bytes after ')' in the including region have been delivered.
C8_IncludeOrdering ==
    \A j \in DOMAIN resolver.finalized :
        LET batch == SelectSeq(resolver.finalized[j], HasSpan)
            close == Last(batch)
            outer == resolver.tokenizer.region[close.index + 1]
            InBatch == { i \in SpanPlaces : \E k \in DOMAIN batch :
                            delivered[i] = Phantom(batch[k].body, SpanOf(batch[k])) }
            Included == { i \in SpanPlaces : delivered[i].index = j }
            After == { i \in SpanPlaces :
                          /\ delivered[i].index = close.index
                          /\ delivered[i].pos_region > close.pos_region }
        IN  /\ \A a \in InBatch : \A b \in Included : a < b
            /\ Included # {} => Cardinality(InBatch) = Len(batch)
            /\ \A a \in Included : \A b \in After : a < b
            /\ After # {} =>
                  Tiles(SelectSeq(delivered,
                                  LAMBDA tok : HasSpan(tok) /\ tok.index = j),
                        resolver.tokenizer.region[j + 1])
            /\ Drained =>
                  \A pos \in (close.pos_region + 1)..(Len(outer) - 1) :
                      \E b \in After :
                          /\ delivered[b].pos_region <= pos
                          /\ pos < delivered[b].pos_region + delivered[b].length

\* the results of n calls of Tokenizer::next() on the Tokenizer t
RECURSIVE TokenizerResults(_, _)
TokenizerResults(t, n) ==
    IF n = 0 THEN <<>>
    ELSE Only({ <<r.ret>> \o TokenizerResults(r.t, n - 1)
                : r \in { TokenizerNext(t) } })

\* what a Tokenizer alone returns for the resolver's base region when it is
\* called as often as the resolver has been
Reference ==
    TokenizerResults(src_push(TokenizerNew, resolver.tokenizer.region[1]),
                     Len(delivered))

NoInclude(toks) ==
    \A i \in DOMAIN toks : ~(toks[i].kind = "Real" /\ toks[i].body = "Include")

\* C9: passthrough equivalence.  On an input for which the Tokenizer does not
\* yield Real(Include), the results of the resolver's next() are, one by one
\* and with the final None, the results of Tokenizer::next() on that input.
C9_PassthroughEquivalence ==
    resolver.tokenizer.region # <<>> =>
        \A ref \in { Reference } :
            NoInclude(ref) => (~panicked /\ delivered = ref)

\* the resolver passed a diagnostic and a Real token through and reached the
\* final None of an input without @include
C9_Witness ==
    /\ resolver.tokenizer.region # <<>>
    /\ Drained
    /\ NoInclude(Reference)
    /\ \E i \in DOMAIN delivered : delivered[i].kind = "Real"
    /\ \E i \in DOMAIN delivered : IsDiagnostic(delivered[i])

\* C10: a failed batch is surfaced.  After the resolver gave up an @include
\* batch, the calls of next() that follow deliver the tokens collected in the
\* batch, unchanged and Real, in their order, and then the error token: once
\* the caller has got None again, or the program has panicked, none is missing.
C10_FailedBatchSurfaced ==
    ( /\ resolver.failed # <<>>
      /\ \/ panicked
         \/ /\ Len(delivered) >= 2
            /\ Last(delivered) = None
            /\ delivered[Len(delivered) - 1] = None )
    => \A j \in DOMAIN resolver.failed :
          IsSubsequence([k \in DOMAIN resolver.failed[j] |->
                            AsReal(resolver.failed[j][k])], delivered)


\* C11: the Resolver never throws.  Whatever the Tokenizer produces and whatever
\* the template directory holds, IncludeResolver::next() returns Some(token) or
\* None; no call ends in a panic.
C11_NeverPanics == ~panicked


(***************************************************************************)
(* Claims about the TokenBuf                                               *)
(***************************************************************************)
IsPrefix(p, seq) == Len(p) <= Len(seq) /\ SubSeq(seq, 1, Len(p)) = p

\* the TokenBuf was partially drained: a popleft since it was last empty, and
\* tokens still pending
PartiallyDrained(tb) == tb.num_tokens > 0 /\ Len(tb.buf) > tb.num_tokens

\* C12: TokenBuf FIFO.  The tokens popleft returns are the appended tokens in
\* append order; when the last pending token has been returned, everything
\* appended has been returned, buf_len() is 0 and num_tokens() is 0, and
\* popleft answers Ok(None) only then.
C12_Fifo ==
    /\ IsPrefix(popped, appended)
    /\ tbuf.num_tokens = 0 => popped = appended /\ Len(tbuf.buf) = 0
    /\ tb_result.call = "popleft" /\ tb_result.ret = None
       => tb_result.ok /\ tbuf.num_tokens = 0 /\ popped = appended

\* three or more tokens appended in one batch to the empty TokenBuf, and the
\* last of them just returned by popleft
C12_Witness ==
    /\ tb_result.call = "popleft"
    /\ tb_result.ok
    /\ tb_result.ret # None
    /\ tb_result.was.buf = appended
    /\ tb_result.was.num_tokens = 1
    /\ Len(appended) >= 3
    /\ popped = appended

\* C13: release-mode permissiveness.  Without the feature tokenbuf_push_guard,
\* under every interleaving of append and popleft no append is refused, the
\* appended tokens are the returned tokens followed by the pending ones (each
\* one returned once, in append order), and buf_len() is never less than
\* num_tokens().
C13_Permissive ==
    ~tokenbuf_push_guard
    => /\ appended = popped \o Pending(tbuf)
       /\ Len(tbuf.buf) >= tbuf.num_tokens
       /\ tb_result.ok

\* an append made on a partially drained TokenBuf was accepted
C13_Witness ==
    /\ ~tokenbuf_push_guard
    /\ tb_result.call = "append"
    /\ tb_result.ok
    /\ PartiallyDrained(tb_result.was)
    /\ popped # <<>>

\* C14: guarded append.  With the feature tokenbuf_push_guard an append on a
\* partially drained TokenBuf returns Err(Fatal(InternalError)) and enqueues
\* nothing; an append on an empty or never-drained TokenBuf returns Ok and
\* enqueues the token.
C14_GuardedAppend ==
    "tokenbuf_push_guard" \in features /\ tb_result.call = "append"
    => IF PartiallyDrained(tb_result.was)
       THEN /\ ~tb_result.ok
            /\ tb_result.ret.kind = "Fatal" /\ tb_result.ret.body = "InternalError"
            /\ tbuf.buf = tb_result.was.buf
            /\ tbuf.num_tokens = tb_result.was.num_tokens
       ELSE /\ Len(tb_result.was.buf) = tb_result.was.num_tokens
            /\ tb_result.ok
            /\ tbuf.buf = Append(tb_result.was.buf, tb_result.arg)
            /\ tbuf.num_tokens = tb_result.was.num_tokens + 1

\* the guard has refused an append on a partially drained TokenBuf
C14_Witness ==
    /\ "tokenbuf_push_guard" \in features
    /\ tb_result.call = "append"
    /\ PartiallyDrained(tb_result.was)
    /\ ~tb_result.ok

\* C15: TokenBuf failure semantics.  Whenever append or popleft has returned an
\* error token, num_tokens() is 0 and buf_len() is 0.
C15_ErrorReset ==
    ~tb_result.ok => tbuf.num_tokens = 0 /\ Len(tbuf.buf) = 0


(***************************************************************************)
(* Claims about the Tokenizer's failure handling                           *)
(***************************************************************************)
\* src_push was never called on the Tokenizer: it is as constructed, but for
\* the record of the NoInput it may have reported
NeverPushed == [tokenizer EXCEPT !.parse_error_prev = "None"] = TokenizerNew

\* C16: NoInput exactly once.  On a Tokenizer on which src_push was never
\* called the first next() returns Error(NoInput), every later next() returns
\* None, and the state stays ExpectInput.
C16_NoInputOnce ==
    NeverPushed
    => /\ tokenizer.state = "ExpectInput"
       /\ \A i \in DOMAIN delivered :
             delivered[i] = IF i = 1 THEN Diag("Error", "NoInput", 0, "", 0) ELSE None

\* next() was called three times or more with no region pushed
C16_Witness == NeverPushed /\ Len(delivered) >= 3


\* what bounds the Some results of a failed Tokenizer: the pending tokens, and
\* one more for the offending token that is queued again when InternalError
\* is latched
FailedMeasure(t) ==
    t.tokenbuf.num_tokens + (IF t.parse_error_prev = "InternalError" THEN 0 ELSE 1)

\* one step taken by a Tokenizer whose state is Failed
FailedStep ==
    /\ tokenizer'.state = "Failed"
    /\ delivered' # delivered
       => /\ tokenizer.tokenbuf.num_tokens = 0 => result' = None
          /\ result' # None => FailedMeasure(tokenizer') < FailedMeasure(tokenizer)

C18_FatalImpliesFailed ==
    delivered # <<>> /\ result.kind = "Fatal" => tokenizer.state = "Failed"


\* the loop over next() has ended: the last call returned None
LoopEnded == delivered # <<>> /\ result = None

\* the Tokenizer's part of the termination claim: once a region is pushed,
\* the caller's loop over Tokenizer::next() reaches None after finitely many
\* calls
TokenizerTermination == (tokenizer.region # <<>>) ~> LoopEnded

\* a StateChange result comes with progress: the call that returned it moved
\* the position, changed the state or queued tokens
StateChangeProgress ==
    [][delivered' # delivered /\ result' = StateChange => tokenizer' # tokenizer]_vars

\* a resolver loop short of its limit: the limit cuts no loop
ResolverLoopWithinLimit == Len(delivered) < ResolverIterationLimit

\* the resolver's loop ends with None or in a panic, never in endless calls
ResolverLoopStops == (resolver.tokenizer.region # <<>>) ~> (LoopEnded \/ panicked)

\* C19: termination.  Once the base region is pushed, the caller's loop over
\* IncludeResolver::next() (and so over Tokenizer::next() under it) reaches
\* None after finitely many calls.
C19_Termination == (resolver.tokenizer.region # <<>>) ~> LoopEnded


(***************************************************************************)
(* Claims about unterminated instructions                                  *)
(***************************************************************************)
\* the bytes of src from pos on do not hold the ')' that balances the
\* instruction's parentheses, nopen opened and nclose closed so far
RECURSIVE Unclosed(_, _, _, _)
Unclosed(src, pos, nopen, nclose) ==
    IF pos >= Len(src) THEN TRUE
    ELSE IF ByteAt(src, pos) = LPAREN THEN Unclosed(src, pos + 1, nopen + 1, nclose)
    ELSE IF ByteAt(src, pos) = RPAREN
    THEN nclose + 1 # nopen /\ Unclosed(src, pos + 1, nopen, nclose + 1)
    ELSE Unclosed(src, pos + 1, nopen, nclose)

\* the last call of next() met the end of the region in ExpectInstructionClose
\* with the parentheses unbalanced
UnterminatedCall ==
    /\ delivered # <<>>
    /\ tokenizer.region = before.region
    /\ before.state = "ExpectInstructionClose"
    /\ before.tokenbuf.num_tokens = 0
    /\ Unclosed(Src(before), before.pos_region, before.cnt_openparen, before.cnt_closeparen)

\* the Include tokens delivered so far
IncludesDelivered == SelectSeq(delivered, LAMBDA tok : tok.kind = "Real" /\ tok.body = "Include")

\* the bytes the tokens of toks span together
RECURSIVE SpanTotal(_)
SpanTotal(toks) == IF toks = <<>> THEN 0 ELSE toks[1].length + SpanTotal(Tail(toks))

\* C20: unterminated instruction.  When a region ends in ExpectInstructionClose
\* with unbalanced parentheses, the Tokenizer queues what is left of the region
\* (the trailing Defered run last) and then Error(OpenInstruction) carrying the
\* pos_zero of the Include token that opened the instruction, and its state is
\* ExpectDefered; when the error is delivered the whole region has been
\* delivered before it and the state is still ExpectDefered.
C20_UnterminatedInstruction ==
    /\ UnterminatedCall
       => /\ tokenizer.state = "ExpectDefered"
          /\ IncludesDelivered # <<>>
          /\ Pending(tokenizer.tokenbuf) # <<>>
          /\ Last(Pending(tokenizer.tokenbuf))
                = Diag("Error", "OpenInstruction", Last(IncludesDelivered).pos_zero, "Tokenizer", 0)
          /\ SpanTotal(Pending(tokenizer.tokenbuf)) = Len(Src(before)) - before.pos_region
    /\ result.kind = "Error" /\ result.body = "OpenInstruction"
       => /\ tokenizer.state = "ExpectDefered"
          /\ IncludesDelivered # <<>>
          /\ result.pos_zero = Last(IncludesDelivered).pos_zero
          /\ tokenizer.pos_region = tokenizer.pos_max

\* Error(OpenInstruction) has been delivered right after the trailing Defered
\* run of an instruction that does not start the region
C20_Witness ==
    /\ result.kind = "Error" /\ result.body = "OpenInstruction"
    /\ result.pos_zero > 0
    /\ Len(delivered) >= 2
    /\ delivered[Len(delivered) - 1].body = "Defered"


(***************************************************************************)
(* Claims about instruction arguments                                      *)
(***************************************************************************)
\* the position of the first ')' of src at or after pos at which as many ')'
\* as '(' have been seen, nopen and nclose seen before pos; -1 if there is none
RECURSIVE BalancePos(_, _, _, _)
BalancePos(src, pos, nopen, nclose) ==
    IF pos >= Len(src) THEN -1
    ELSE IF ByteAt(src, pos) = LPAREN THEN BalancePos(src, pos + 1, nopen + 1, nclose)
    ELSE IF ByteAt(src, pos) = RPAREN
    THEN IF nclose + 1 = nopen THEN pos ELSE BalancePos(src, pos + 1, nopen, nclose + 1)
    ELSE BalancePos(src, pos + 1, nopen, nclose)

\* the index in delivered of the last token of the given body, 0 if none
LastIndexOf(body) ==
    LET found == { i \in DOMAIN delivered : delivered[i].kind = "Real" /\ delivered[i].body = body }
    IN  IF found = {} THEN 0 ELSE CHOOSE i \in found : \A j \in found : j <= i

\* C21: balanced close.  After Include and OpenParen were delivered the
\* Tokenizer delivers Real(CloseParen) for the first ')' that balances the
\* parentheses counted from the instruction's own '('; every delivered
\* CloseParen is that byte, the span-carrying tokens delivered between the
\* OpenParen and it are Defered and Newline tokens covering all the bytes
\* between them, and the state is ExpectDefered afterwards.  No call that
\* scans balanced arguments returns a Fatal.
C21_BalancedClose ==
    /\ result.kind = "Real" /\ result.body = "CloseParen"
       => /\ LastIndexOf("OpenParen") > 0
          /\ tokenizer.state = "ExpectDefered"
          /\ \A open \in { delivered[LastIndexOf("OpenParen")] } :
                /\ result.length = 1
                /\ result.pos_region = BalancePos(Src(before), open.pos_region + 1, 1, 0)
                /\ \A i \in LastIndexOf("OpenParen") + 1 .. Len(delivered) - 1 :
                      HasSpan(delivered[i]) => delivered[i].body \in {"Defered", "Newline"}
                /\ SpanTotal(SubSeq(delivered, LastIndexOf("OpenParen") + 1, Len(delivered) - 1))
                      = result.pos_region - (open.pos_region + 1)
    /\ delivered # <<>> /\ tokenizer.region = before.region
       /\ before.state = "ExpectInstructionClose" /\ before.cnt_openparen = 1
       /\ LastIndexOf("OpenParen") > 0
       /\ BalancePos(Src(before), delivered[LastIndexOf("OpenParen")].pos_region + 1, 1, 0) >= 0
       => result.kind # "Fatal"


(***************************************************************************)
(* Claims about instruction recognition.  A scanning call is a next() made *)
(* in ExpectDefered with nothing queued and bytes left in the region; what *)
(* it produced is the token it returned followed by the tokens it queued.  *)
(***************************************************************************)
ScanCall ==
    /\ delivered # <<>>
    /\ tokenizer.region = before.region
    /\ before.state = "ExpectDefered"
    /\ before.tokenbuf.num_tokens = 0
    /\ before.pos_region < before.pos_max

\* the first '@' or 0x0A at or after the position the scanning call began at
ScanStop == defered_scan(Src(before), before.pos_region)

\* the scanning call met an '@' before any 0x0A
ScanMetAt == ScanCall /\ ScanStop < Len(Src(before)) /\ ByteAt(Src(before), ScanStop) = AT

Produced ==
    (IF result.kind \in {"None", "StateChange"} THEN <<>> ELSE <<result>>)
    \o Pending(tokenizer.tokenbuf)

\* the position of the first '(' or ')' of src at or after pos, or Len(src)
RECURSIVE FirstParen(_, _)
FirstParen(src, pos) ==
    IF pos < Len(src) /\ ByteAt(src, pos) \notin {LPAREN, RPAREN}
    THEN FirstParen(src, pos + 1)
    ELSE pos

\* the position of the '(' of the instruction whose '@' is at p
OpenParenOf(src, p) == FirstParen(src, p)

\* src holds at p an '@' directly followed by the identifier 'include' (these
\* 7 bytes and no further identifier byte), and the next '(' comes before any
\* ')'
RecognizedAt(src, p) ==
    /\ p + 8 <= Len(src)
    /\ Slice(src, p, p + 8) = <<AT>> \o IncludeIdent
    /\ FirstParen(src, p) < Len(src)
    /\ ByteAt(src, FirstParen(src, p)) = LPAREN
    /\ \A q \in p + 8 .. FirstParen(src, p) - 1 : ~IsIdentChar(ByteAt(src, q))

\* the TokenBody variants of whitespace tokens
WhitespaceBodies == {"WhiteSpace", "WhiteSpaceWhole", "WhiteSpaceLd", "WhiteSpaceTr", "Newline"}

\* the tokens of toks that carry a span
Spanned(toks) == SelectSeq(toks, HasSpan)

\* toks holds at place i an Include for the instruction at p of src, followed
\* by whitespace tokens or none and then by the OpenParen at its '('
IncludeThenOpenParen(toks, i, src, p) ==
    /\ i \in DOMAIN toks
    /\ toks[i].kind = "Real" /\ toks[i].body = "Include"
    /\ toks[i].pos_region = p /\ toks[i].length = 8
    /\ \E j \in i + 1 .. Len(toks) :
          /\ toks[j].kind = "Real" /\ toks[j].body = "OpenParen"
          /\ toks[j].pos_region = OpenParenOf(src, p) /\ toks[j].length = 1
          /\ \A k \in i + 1 .. j - 1 : toks[k].body \in WhitespaceBodies

\* the delivered token at place j follows the Include at place i with
\* nothing but whitespace tokens and warnings delivered between them
FollowsInclude(i, j) ==
    /\ i < j
    /\ \A k \in i + 1 .. j - 1 :
          \/ delivered[k].kind = "Real" /\ delivered[k].body \in WhitespaceBodies
          \/ delivered[k].kind = "Warning"

\* C22: include recognition.  A scanning call that meets an '@' directly
\* followed by the identifier 'include' with the next '(' before any ')'
\* produces Real(Include) of length 8 at the '@', then whitespace tokens or
\* none, then Real(OpenParen) of length 1 at the '('; no other scanning call
\* produces an Include; every Include delivered spans the bytes '@include' of
\* such an instruction; and what is delivered after an Include is whitespace
\* tokens (with their warning) and then the Real(OpenParen) at the '('.
C22_IncludeRecognition ==
    /\ ScanMetAt /\ RecognizedAt(Src(before), ScanStop)
       => \E i \in DOMAIN Spanned(Produced) :
             IncludeThenOpenParen(Spanned(Produced), i, Src(before), ScanStop)
    /\ ScanMetAt /\ ~RecognizedAt(Src(before), ScanStop)
       => \A i \in DOMAIN Produced : Produced[i].body # "Include"
    /\ \A i \in DOMAIN delivered :
          delivered[i].kind = "Real" /\ delivered[i].body = "Include"
          => /\ delivered[i].length = 8
             /\ RecognizedAt(before.region[delivered[i].index + 1], delivered[i].pos_region)
             /\ \A j \in DOMAIN delivered :
                   FollowsInclude(i, j)
                   => \/ delivered[j].kind = "Real" /\ delivered[j].body \in WhitespaceBodies
                      \/ delivered[j].kind = "Warning"
                      \/ /\ delivered[j].kind = "Real" /\ delivered[j].body = "OpenParen"
                         /\ delivered[j].length = 1
                         /\ delivered[j].pos_region
                               = OpenParenOf(before.region[delivered[i].index + 1], delivered[i].pos_region)


\* the end of the span of tok: the position of the byte after it
SpanEnd(tok) == tok.pos_region + tok.length

\* C23: preceding run first.  A scanning call that meets a recognized
\* '@include(' after unconsumed bytes of the run returns Real(Defered)
\* covering exactly those bytes; and after a delivered Defered that ends at a
\* recognized instruction come Real(Include) at its '@', then whitespace
\* tokens or none (with their warning), then Real(OpenParen) at its '(', and
\* no Fatal, wherever in the line the run starts.
C23_PrecedingRunFirst ==
    /\ ScanMetAt /\ RecognizedAt(Src(before), ScanStop) /\ before.pos_region < ScanStop
       => /\ result.kind = "Real" /\ result.body = "Defered"
          /\ result.pos_region = before.pos_region
          /\ SpanEnd(result) = ScanStop
    /\ \A i \in DOMAIN delivered :
          /\ delivered[i].kind = "Real" /\ delivered[i].body = "Defered"
          /\ delivered[i].length > 0
          /\ RecognizedAt(before.region[delivered[i].index + 1], SpanEnd(delivered[i]))
          => \A j \in DOMAIN delivered :
                /\ j = i + 1
                   => /\ delivered[j].kind = "Real" /\ delivered[j].body = "Include"
                      /\ delivered[j].pos_region = SpanEnd(delivered[i])
                /\ FollowsInclude(i + 1, j)
                   => \/ delivered[j].kind = "Real" /\ delivered[j].body \in WhitespaceBodies
                      \/ delivered[j].kind = "Warning"
                      \/ /\ delivered[j].kind = "Real" /\ delivered[j].body = "OpenParen"
                         /\ delivered[j].pos_region
                               = OpenParenOf(before.region[delivered[i].index + 1], SpanEnd(delivered[i]))


\* C24: UnescapedAt covers the '@'.  Every delivered Real(UnescapedAt) has
\* length 1 and the byte of its region at its pos_region is '@', also when the
\* '@' is preceded by unconsumed bytes of the run; and the call that returns it
\* leaves the Tokenizer in ExpectDefered at the byte after it.
C24_UnescapedAtCoversAt ==
    /\ \A i \in DOMAIN delivered :
          delivered[i].kind = "Real" /\ delivered[i].body = "UnescapedAt"
          => /\ delivered[i].length = 1
             /\ delivered[i].pos_region < Len(before.region[delivered[i].index + 1])
             /\ ByteAt(before.region[delivered[i].index + 1], delivered[i].pos_region) = AT
    /\ result.kind = "Real" /\ result.body = "UnescapedAt"
       => /\ tokenizer.state = "ExpectDefered"
          /\ tokenizer.pos_region = result.pos_region + 1


\* the position of the first '(' of src at or after pos, or Len(src)
RECURSIVE FirstOpen(_, _)
FirstOpen(src, pos) ==
    IF pos < Len(src) /\ ByteAt(src, pos) # LPAREN
    THEN FirstOpen(src, pos + 1)
    ELSE pos

\* the positions of src after p, before the first '(', that hold a ')'
ClosedBeforeOpen(src, p) == { q \in p + 1 .. FirstOpen(src, p) - 1 : ByteAt(src, q) = RPAREN }

\* C25: misordered parentheses.  A scanning call that meets an '@' after
\* which a ')' comes before the first '(' returns Real(UnescapedAt) for the
\* '@', queues exactly Error(InstructionError) carrying the global offset of
\* the '@', and stays in ExpectDefered at the byte after the '@'.
C25_MisorderedParens ==
    /\ ScanMetAt
    /\ FirstOpen(Src(before), ScanStop) < Len(Src(before))
    /\ ClosedBeforeOpen(Src(before), ScanStop) # {}
    => /\ result.kind = "Real" /\ result.body = "UnescapedAt"
       /\ result.pos_region = ScanStop /\ result.length = 1
       /\ Len(Pending(tokenizer.tokenbuf)) = 1
       /\ \A e \in { Pending(tokenizer.tokenbuf)[1] } :
             /\ e.kind = "Error" /\ e.body = "InstructionError"
             /\ e.pos_zero = before.pos_zero + (ScanStop - before.pos_region)
       /\ tokenizer.state = "ExpectDefered"
       /\ tokenizer.pos_region = ScanStop + 1


\* no '(' of src lies at or after p
NoOpenAfter(src, p) == FirstOpen(src, p) = Len(src)

\* C26: unfinished instruction.  A scanning call that meets an '@' after
\* which the region holds no '(' returns exactly one Real(Defered) that runs
\* from the position the call began at to the end of the region, queues
\* nothing (no Include, no error), and stays in ExpectDefered.
C26_UnfinishedInstruction ==
    ScanMetAt /\ NoOpenAfter(Src(before), ScanStop)
    => /\ result.kind = "Real" /\ result.body = "Defered"
       /\ result.index = before.index
       /\ result.pos_region = before.pos_region
       /\ SpanEnd(result) = Len(Src(before))
       /\ Pending(tokenizer.tokenbuf) = <<>>
       /\ tokenizer.state = "ExpectDefered"

\* a call met an '@' with no '(' after it and returned the rest of the region
C26_Witness ==
    /\ ScanMetAt /\ NoOpenAfter(Src(before), ScanStop)
    /\ before.pos_region > 0
    /\ ScanStop > before.pos_region /\ ScanStop + 1 < Len(Src(before))
    /\ result.kind = "Real" /\ result.body = "Defered"


\* at least one byte lies between the identifier of the recognized
\* instruction whose '@' is at p and its '('
Separated(src, p) == RecognizedAt(src, p) /\ OpenParenOf(src, p) > p + 8

\* the places of the tokens delivered after the Include at place i, up to the
\* first one that is neither a whitespace token nor a warning
AfterInclude(i) == { j \in DOMAIN delivered : FollowsInclude(i, j) }

\* C27: whitespace is warning-marked.  When at least one byte separates the
\* identifier of a recognized, delivered Include from its '(' and the tokens
\* up to the OpenParen have been delivered, a whitespace token and a
\* Warning(UnwantedWhiteSpace) are among the tokens between the two.
C27_WhitespaceWarned ==
    \A i \in DOMAIN delivered :
       /\ delivered[i].kind = "Real" /\ delivered[i].body = "Include"
       /\ Separated(before.region[delivered[i].index + 1], delivered[i].pos_region)
       /\ \E j \in AfterInclude(i) : delivered[j].kind = "Real" /\ delivered[j].body = "OpenParen"
       => /\ \E j \in AfterInclude(i) :
                delivered[j].kind = "Real" /\ delivered[j].body \in WhitespaceBodies
          /\ \E j \in AfterInclude(i) :
                delivered[j].kind = "Warning" /\ delivered[j].body = "UnwantedWhiteSpace"



\* the Span sp names bytes of a region pushed onto t
InRange(t, sp) ==
    /\ sp.index < Len(t.region)
    /\ sp.pos_region + sp.length <= Len(t.region[sp.index + 1])

\* the bytes the Span sp names in t, or NoSlice when it names none
BytesOf(t, sp) ==
    IF InRange(t, sp)
    THEN Slice(t.region[sp.index + 1], sp.pos_region, sp.pos_region + sp.length)
    ELSE NoSlice

\* C28: span_slice result.  A span_slice call returns None when no region
\* was pushed, when the Span's index is not that of a pushed region, or when
\* pos_region + length exceeds that region's length; otherwise it returns
\* exactly the bytes region[index][pos_region .. pos_region + length], for
\* regions other than the current one and for exhausted regions too; and the
\* call changes no Tokenizer field.
C28_SpanSlice ==
    [][SpanSliceCall => slice_ret' = BytesOf(tokenizer, slice_span') /\ tokenizer' = tokenizer]_vars


\* C29: span bounds.  Every span-carrying token returned by next() lies
\* within its region, pos_region + length <= the length of region[index], and
\* its pos_line is at most its pos_region.
C29_SpanBounds ==
    \A i \in DOMAIN delivered :
       HasSpan(delivered[i])
       => /\ delivered[i].index < Len(tokenizer.region)
          /\ SpanEnd(delivered[i]) <= Len(tokenizer.region[delivered[i].index + 1])
          /\ delivered[i].pos_line <= delivered[i].pos_region


\* a token that ends at the last byte of a region pushed on top of another
\* one was delivered, and so was a token of a later line of a region
C29_Witness ==
    /\ \E i \in DOMAIN delivered :
          /\ HasSpan(delivered[i]) /\ delivered[i].index > 0 /\ delivered[i].length > 0
          /\ SpanEnd(delivered[i]) = Len(tokenizer.region[delivered[i].index + 1])
    /\ \E i \in DOMAIN delivered :
          /\ HasSpan(delivered[i]) /\ delivered[i].length > 0
          /\ delivered[i].pos_line < delivered[i].pos_region


\* the call began in ExpectDefered with an empty queue at the end of its region
AtRegionEnd ==
    /\ delivered # <<>>
    /\ tokenizer.region = before.region
    /\ before.state = "ExpectDefered"
    /\ before.tokenbuf.num_tokens = 0
    /\ before.pos_region = Len(Src(before))

\* C30: end of a non-base region.  A next() that begins at the end of a
\* non-base region with an empty queue pops to the enclosing region and goes
\* on tokenizing it; and a next() that returns None in ExpectDefered began at
\* the end of the base region, every region pushed on top of it popped.
C30_EndOfNonBaseRegion ==
    /\ AtRegionEnd /\ before.index > 0
       => /\ tokenizer.index < before.index
          /\ Len(tokenizer.state_snap) < Len(before.state_snap)
    /\ /\ delivered # <<>>
       /\ tokenizer.region = before.region
       /\ before.state = "ExpectDefered"
       /\ result.kind = "None"
       => /\ before.index = 0
          /\ Len(before.state_snap) = 1
          /\ before.pos_region = Len(Src(before))


(***************************************************************************)
(* Claims about the Tokenizer's bookkeeping.                               *)
(***************************************************************************)
\* the latest operation was a next() and result is what it returned
NextReturned == delivered # <<>> /\ tokenizer.region = before.region

\* the latest next() popped a region: the token it returned consumed the last
\* byte of a non-base region
RegionPopped == NextReturned /\ Len(tokenizer.state_snap) < Len(before.state_snap)

\* the position fields of t
Position(t) == <<t.index, t.pos_region, t.pos_line, t.pos_zero, t.line>>

\* the next() before which the Tokenizer had line and pos_line as the token
\* returned says left line and pos_line as the delivery of that token sets them
LineKept ==
    IF result.body = "Newline"
    THEN tokenizer.line = result.line + 1 /\ tokenizer.pos_line = 0
    ELSE tokenizer.line = result.line /\ tokenizer.pos_line = result.pos_line + result.length

\* a next() that returned a token without a span changed no position field
NoSpanNoMove ==
    NextReturned /\ result.kind \in {"Warning", "Error", "StateChange"}
    => Position(tokenizer) = Position(before)

\* C31 as stated: line bookkeeping on delivery.  Delivering a Newline sets
\* line to the token's line + 1 and pos_line to 0, delivering any other
\* span-carrying token leaves line at the token's line and pos_line at the
\* token's pos_line + length, and delivering a token without a span changes
\* no position field.
C31_LineBookkeeping ==
    /\ NextReturned /\ HasSpan(result) => LineKept
    /\ NoSpanNoMove

\* C31 amended: the same, unless the token delivered consumed the last byte
\* of a non-base region; then line and pos_line are those of the snapshot
\* taken when that region was pushed.
C31_LineBookkeepingAmended ==
    /\ NextReturned /\ HasSpan(result) /\ ~RegionPopped => LineKept
    /\ NextReturned /\ HasSpan(result) /\ RegionPopped
       => \A snap \in { before.state_snap[Len(before.state_snap)] } :
             tokenizer.line = snap.line /\ tokenizer.pos_line = snap.pos_line
    /\ NoSpanNoMove

\* a Newline was delivered in a region pushed on top of another one, and the
\* Tokenizer went to the next line of that region
C31_Witness ==
    /\ NextReturned /\ ~RegionPopped
    /\ result.kind = "Real" /\ result.body = "Newline"
    /\ result.index > 0 /\ before.pos_line > 0
    /\ tokenizer.line = result.line + 1


(***************************************************************************)
(* Claims about the scanning of instruction arguments.                     *)
(***************************************************************************)
\* the latest next() began in ExpectInstructionClose with an empty queue: it
\* scanned the arguments from the Tokenizer's position on
ArgsCall ==
    /\ NextReturned
    /\ before.state = "ExpectInstructionClose"
    /\ before.tokenbuf.num_tokens = 0

\* the position at which the scan of ArgsCall stopped: the balancing ')' or
\* the end of the region
ArgsStop ==
    IF BalancePos(Src(before), before.pos_region, before.cnt_openparen, before.cnt_closeparen) >= 0
    THEN BalancePos(Src(before), before.pos_region, before.cnt_openparen, before.cnt_closeparen)
    ELSE Len(Src(before))

\* t with every '@' of its current region from its position on replaced by
\* the ordinary byte b
WithoutAt(t, b) ==
    [t EXCEPT !.region[t.index + 1] =
        [k \in DOMAIN @ |-> IF k > t.pos_region /\ @[k] = AT THEN b ELSE @[k]]]

\* the fields of t but its regions
ButRegion(t) == [t EXCEPT !.region = <<>>]

\* C32: '@' is literal inside arguments.  A next() that scans arguments
\* produces no Include and no UnescapedAt, every '@' it scanned lies within
\* a Defered it produced, and it returns the same token and leaves the same
\* state, counters, positions and queue as it does when an ordinary byte
\* stands in place of each '@'.
C32_AtLiteralInArgs ==
    ArgsCall
    => /\ \A i \in DOMAIN Produced : Produced[i].body \notin {"Include", "UnescapedAt"}
       /\ \A p \in before.pos_region .. ArgsStop - 1 :
             ByteAt(Src(before), p) = AT
             => \E i \in DOMAIN Produced :
                   /\ Produced[i].kind = "Real" /\ Produced[i].body = "Defered"
                   /\ Produced[i].pos_region <= p /\ p < SpanEnd(Produced[i])
       /\ \A r \in { TokenizerNext(WithoutAt(before, LowerZ)) } :
             r.ret = result /\ ButRegion(r.t) = ButRegion(tokenizer)

\* arguments that hold an '@' were scanned up to their balancing ')'
C32_Witness ==
    /\ ArgsCall
    /\ ArgsStop < Len(Src(before))
    /\ \E p \in before.pos_region .. ArgsStop - 1 : ByteAt(Src(before), p) = AT
    /\ tokenizer.state = "ExpectDefered"


\* the step is a src_push: the Tokenizer changes and nothing is delivered
PushStep == tokenizer' # tokenizer /\ delivered' = delivered

\* the step is a next() that pops a region and returns a token with a span
PopStep ==
    /\ delivered' # delivered
    /\ Len(tokenizer'.state_snap) < Len(tokenizer.state_snap)
    /\ HasSpan(result')

\* C33 as stated: the global offset is never reset.  Over every src_push and
\* next() the Tokenizer's pos_zero does not decrease; a src_push leaves it
\* unchanged and changes the state only from ExpectInput to ExpectDefered;
\* and a next() that pops a region leaves pos_zero at the end of the token it
\* delivered.
C33_GlobalOffsetStep ==
    /\ tokenizer'.pos_zero >= tokenizer.pos_zero
    /\ PushStep
       => /\ tokenizer'.pos_zero = tokenizer.pos_zero
          /\ tokenizer'.state = IF tokenizer.state = "ExpectInput" THEN "ExpectDefered" ELSE tokenizer.state
    /\ PopStep => tokenizer'.pos_zero = result'.pos_zero + result'.length

C33_GlobalOffset == [][C33_GlobalOffsetStep]_vars

\* C33 amended: the same, but a src_push that fails for lack of memory
\* (it returns Err(Fatal(NoMemory))) sets the state to Failed; only a
\* src_push that returns Ok changes the state from ExpectInput to
\* ExpectDefered and in no other way.
C33_GlobalOffsetAmendedStep ==
    /\ tokenizer'.pos_zero >= tokenizer.pos_zero
    /\ PushStep
       => /\ tokenizer'.pos_zero = tokenizer.pos_zero
          /\ tokenizer'.state =
                IF ~src_push_ok(tokenizer) THEN "Failed"
                ELSE IF tokenizer.state = "ExpectInput" THEN "ExpectDefered"
                ELSE tokenizer.state
    /\ PopStep => tokenizer'.pos_zero = result'.pos_zero + result'.length

C33_GlobalOffsetAmended == [][C33_GlobalOffsetAmendedStep]_vars

\* a region was pushed onto a Tokenizer that had delivered bytes, was
\* tokenized to its end and popped, and pos_zero counts the bytes of both
C33_Witness ==
    /\ RegionPopped
    /\ HasSpan(result)
    /\ before.pos_zero > 0
    /\ tokenizer.pos_zero > before.pos_zero
    /\ tokenizer.pos_region < tokenizer.pos_zero


(***************************************************************************)
(* Claims about the whitespace between an instruction and its '('.         *)
(***************************************************************************)
\* the position of the first 0x0A of src in p .. end - 1, or end
RECURSIVE FirstNewline(_, _, _)
FirstNewline(src, p, end) ==
    IF p < end /\ ByteAt(src, p) # LF THEN FirstNewline(src, p + 1, end) ELSE p

\* the whitespace tokens for the bytes p .. end - 1 of region index, src, the
\* byte at p being at column col of line line and at global offset zero: up
\* to each 0x0A the part before it (WhiteSpaceTr after content, at column 0
\* WhiteSpaceWhole) and a Newline, and the part after the last 0x0A
\* (WhiteSpaceLd when bytes follow in the region, else WhiteSpace)
RECURSIVE Classified(_, _, _, _, _, _, _)
Classified(index, src, p, end, col, line, zero) ==
    IF p >= end THEN <<>>
    ELSE IF FirstNewline(src, p, end) < end
    THEN (IF FirstNewline(src, p, end) > p
          THEN << Real(IF col = 0 THEN "WhiteSpaceWhole" ELSE "WhiteSpaceTr",
                       Span(index, p, col, zero, line, FirstNewline(src, p, end) - p)) >>
          ELSE <<>>)
         \o << Real("Newline",
                    Span(index, FirstNewline(src, p, end),
                         col + (FirstNewline(src, p, end) - p),
                         zero + (FirstNewline(src, p, end) - p), line, 1)) >>
         \o Classified(index, src, FirstNewline(src, p, end) + 1, end, 0, line + 1,
                       zero + (FirstNewline(src, p, end) - p) + 1)
    ELSE << Real(IF end < Len(src) THEN "WhiteSpaceLd" ELSE "WhiteSpace",
                 Span(index, p, col, zero, line, end - p)) >>

\* the latest next() met, as the first byte it scanned, the '@' of a
\* recognized instruction with a run of whitespace that holds a 0x0A between
\* 'include' and '('
NewlineBeforeParen ==
    /\ ScanMetAt /\ ScanStop = before.pos_region
    /\ RecognizedAt(Src(before), ScanStop)
    /\ \A p \in ScanStop + 8 .. OpenParenOf(Src(before), ScanStop) - 1 :
          ByteAt(Src(before), p) \in {SP, TAB, LF}
    /\ \E p \in ScanStop + 8 .. OpenParenOf(Src(before), ScanStop) - 1 :
          ByteAt(Src(before), p) = LF

Queued(t) == t.tokenbuf.num_tokens

C35_LatchStep ==
    tokenizer.parse_error_prev = "InternalError"
    => /\ tokenizer'.parse_error_prev = "InternalError"
       /\ Queued(tokenizer') <= Queued(tokenizer)
       /\ Queued(tokenizer) > 0 /\ delivered' # delivered
          => Queued(tokenizer') < Queued(tokenizer)

\* C35: InternalError latch.  Once the Tokenizer's parse_error_prev is
\* InternalError every later src_push and next() keeps that value and puts
\* no token back into the queue: each next() on a queue that holds tokens
\* leaves it shorter, so next() cannot return Fatal(InternalError) without
\* bound.
C35_InternalErrorLatch == [][C35_LatchStep]_vars


\* a delivery failed while InternalError was latched: the call returned
\* Fatal(InternalError) again and the queue got shorter
C35_Witness ==
    /\ NextReturned
    /\ before.parse_error_prev = "InternalError"
    /\ result.kind = "Fatal" /\ result.body = "InternalError"
    /\ Queued(tokenizer) < Queued(before)


(***************************************************************************)
(* Claims about an include without a path.                                 *)
(***************************************************************************)
\* the Resolver was given "@include()" as its base region
EmptyIncludePushed ==
    /\ Len(resolver.tokenizer.region) >= 1
    /\ resolver.tokenizer.region[1] = <<AT>> \o IncludeIdent \o <<LPAREN, RPAREN>>

\* C36: empty include path.  For the input "@include()" the IncludeResolver
\* does not panic and pushes no region, and by the time it has been called
\* once for each token of the instruction and once more it has delivered an
\* Error(InstructionMissingArgs) with the global offset of the '@include'
\* token (0) and is in Passthrough.
C36_EmptyIncludePath ==
    EmptyIncludePushed
    => /\ ~panicked
       /\ Len(resolver.tokenizer.region) = 1
       /\ Len(delivered) >= 4
          => /\ \E i \in DOMAIN delivered :
                   /\ delivered[i].kind = "Error"
                   /\ delivered[i].body = "InstructionMissingArgs"
                   /\ delivered[i].pos_zero = 0
             /\ resolver.state = "Passthrough"


(***************************************************************************)
(* Claims about the position check of return_tokenized.                    *)
(***************************************************************************)
\* C37: the guard never fires on the Tokenizer's own tokens.  Over every
\* sequence of src_push and next() calls with arbitrary region bytes,
\* Tokenizer::next() never returns Fatal(InternalError) or
\* Fatal(InstructionError).
C37_GuardNeverFires ==
    \A i \in DOMAIN delivered :
       ~(/\ delivered[i].kind = "Fatal"
         /\ delivered[i].body \in {"InternalError", "InstructionError"})


(***************************************************************************)
(* Claims about the line and the column of the returned tokens.            *)
(***************************************************************************)
\* the number of 0x0A bytes of src before position p
RECURSIVE NewlinesBefore(_, _)
NewlinesBefore(src, p) ==
    IF p = 0 THEN 0
    ELSE NewlinesBefore(src, p - 1) + (IF ByteAt(src, p - 1) = LF THEN 1 ELSE 0)

\* the offset of the first byte of the line of src that holds position p
RECURSIVE LineStart(_, _)
LineStart(src, p) ==
    IF p = 0 \/ ByteAt(src, p - 1) = LF THEN p ELSE LineStart(src, p - 1)

\* C38: line and column agree with the bytes.  Every span-carrying token
\* returned by Tokenizer::next() has as its line the number of 0x0A bytes
\* of its region before its pos_region, and as its pos_line its pos_region
\* minus the offset of the first byte of that line.
C38_LineAndColumn ==
    \A i \in DOMAIN delivered :
       HasSpan(delivered[i]) /\ delivered[i].index < Len(tokenizer.region)
       => /\ delivered[i].pos_region <= Len(tokenizer.region[delivered[i].index + 1])
          /\ delivered[i].line
                = NewlinesBefore(tokenizer.region[delivered[i].index + 1],
                                 delivered[i].pos_region)
          /\ delivered[i].pos_line
                = delivered[i].pos_region
                  - LineStart(tokenizer.region[delivered[i].index + 1],
                              delivered[i].pos_region)


\* a token was returned from a later line of a region after the Tokenizer
\* came back from a region pushed later
C38_Witness ==
    /\ NextReturned
    /\ HasSpan(result)
    /\ result.line > 0
    /\ result.pos_region > result.pos_line
    /\ \E i \in DOMAIN delivered :
          HasSpan(delivered[i]) /\ delivered[i].index > result.index


(***************************************************************************)
(* Claims about the drain discipline of the queues.                        *)
(***************************************************************************)
\* C39: drain discipline.  Over every sequence of src_push and next() calls
\* no append to the Tokenizer's tokenbuf, to the Resolver's tokenbuf or to
\* the Resolver's batchbuf has happened while that buffer held an
\* already-delivered slot (buf_len() different from num_tokens()).
C39_DrainDiscipline ==
    /\ ~tokenizer.tokenbuf.undrained
    /\ ~resolver.tokenizer.tokenbuf.undrained
    /\ ~resolver.tokenbuf.undrained
    /\ ~resolver.batchbuf.undrained


(***************************************************************************)
(* Claims about the counters of the TokenBuf.                              *)
(***************************************************************************)
\* C40: TokenBuf counters stay consistent.  After any sequence of append and
\* popleft calls num_tokens() <= buf_len(), and num_tokens() = 0 implies
\* buf_len() = 0; popleft never returns Err, and popleft on an empty
\* TokenBuf returns Ok(None) and changes nothing.
C40_CountersConsistent ==
    /\ tbuf.num_tokens <= Len(tbuf.buf)
    /\ tbuf.num_tokens = 0 => Len(tbuf.buf) = 0
    /\ tb_result.call = "popleft"
       => /\ tb_result.ok
          /\ tb_result.was.num_tokens = 0
             => tb_result.ret = None /\ tbuf = tb_result.was

\* popleft was called on a TokenBuf that had been filled and drained
C40_Witness ==
    /\ tb_result.call = "popleft"
    /\ tb_result.was.num_tokens = 0
    /\ Len(popped) >= 2
    /\ Len(appended) = Len(popped)

====
